---- MODULE Spec2Model ----
(***************************************************************************)
(* Model of the swapchain subsystem of bigwheels (ppx::grfx::Swapchain).   *)
(* The state is the swapchain object's fields, the device's object table   *)
(* and the per-slot command buffers; there is one action per public        *)
(* operation, translated from src/src/ppx/grfx/grfx_swapchain.cpp.         *)
(*                                                                         *)
(* Image indices are 0-based as in the source; TLA+ sequences are 1-based, *)
(* so element i of a C++ vector v is v[i + 1] here.                        *)
(***************************************************************************)
EXTENDS Integers, Sequences, FiniteSets, TLC

(***************************************************************************)
(* Bounds of the model.                                                    *)
(***************************************************************************)
\* largest image count a swapchain is created with
MaxImages == 2
\* largest width / height, configured or requested
MaxSize == 2
\* width and height of the swapchain whose preamble copy is examined
CopySize == 4
\* number of CreateTarget calls the device serves (object generations)
MaxGen == 3
\* width and height of the virtual swapchain whose render area is examined
AreaSize == 4
\* RecordUI calls recorded into one command buffer between two Begin calls
MaxUI == 1
\* headless AcquireNextImage calls counted by the observer
MaxAcquire == 4

VARIABLES
    state,                   \* "Uninitialized" | "Ready" | "CreateFailed" | "Destroyed" | "Crashed"
    mCreateInfo,             \* grfx::SwapchainCreateInfo (the fields the core reads)
    mXrColorSwapchain,       \* XrSwapchain handle (XR_NULL_HANDLE until Create made one)
    mXrDepthSwapchain,       \* XrSwapchain handle
    mDeviceTarget,           \* Swapchain::Target
    mIndirectTarget,         \* Swapchain::Target
    mIsIndirect,
    mCommandBuffers,         \* one command buffer per slot: [open, cmds]
    mIsRecording,
    mPostProcessSemaphores,
    mCurrentImageIndex,
    nextGen,                 \* device: generation of the next CreateTarget call
    device,                  \* device: the object table [live, misused, attached]
    lastOp,                  \* observer: the operation that produced this state
    acquireCount,            \* observer: headless acquires since Create
    resized,                 \* observer: SetIndirectRenderSize called since Create
    presented,               \* observer: Present called since Create
    scopeOpen,               \* observer: RecordPreamble(i) called since the last Present(i)
    mNeedUpdate,             \* DeviceSwapchainWrapImpl (ppx/swapchain.cpp)
    mAbsorbError,            \* DeviceSwapchainWrapImpl
    mOnPresent,              \* SwapchainPresentHook: a callback was supplied
    mVirtualCreateInfo,      \* VirtualSwapchainImpl::mCreateInfo (width, height, depth format)
    mSwapchain,              \* DeviceSwapchainWrapImpl::mSwapchain: This when it points at
                             \* the swapchain of the fields above, else the fields of the
                             \* swapchain it points at, the one above having been
                             \* constructed after it and not handed to the wrap yet
    mRenderArea,             \* VirtualSwapchain
    mRenderPass,             \* WithRenderPass: the RenderPassImpl of DeviceSwapchainWrap
    mPostProcess,            \* WithPostProcess: mQueue, mCommandBuffers, mSemaphores of the
                             \* present hook (Hook) and of the virtual swapchain (Virtual)
    mVirtual,                \* the virtual swapchain: mColorImages, mDepthImages and the
                             \* RenderPassImpl of its WithRenderPass
    wrapOp                   \* observer: the last operation made through a wrap

vars == <<state, mCreateInfo, mXrColorSwapchain, mXrDepthSwapchain, mDeviceTarget, mIndirectTarget, mIsIndirect,
          mCommandBuffers, mIsRecording, mPostProcessSemaphores,
          mCurrentImageIndex, nextGen, device, lastOp, acquireCount,
          resized, presented, scopeOpen,
          mNeedUpdate, mAbsorbError, mOnPresent, mVirtualCreateInfo, mSwapchain,
          mRenderArea, mRenderPass, mPostProcess, mVirtual, wrapOp>>

\* the state of the wraps of ppx/swapchain.cpp around the swapchain
wrapVars == <<mNeedUpdate, mAbsorbError, mOnPresent, mVirtualCreateInfo, mSwapchain,
              mRenderArea, mRenderPass, mPostProcess, mVirtual, wrapOp>>

(***************************************************************************)
(* Results, objects, events and commands.                                  *)
(***************************************************************************)
SUCCESS == "SUCCESS"
ERROR_OUT_OF_RANGE == "ERROR_OUT_OF_RANGE"
ERROR_API_FAILURE == "ERROR_API_FAILURE"
ERROR_OUT_OF_DATE == "ERROR_OUT_OF_DATE"
ERROR_SUBOPTIMAL == "ERROR_SUBOPTIMAL"
ERROR_UNEXPECTED_NULL_ARGUMENT == "ERROR_UNEXPECTED_NULL_ARGUMENT"

\* An object of the device is identified by the CreateTarget call (generation)
\* that created it, its kind and its position in that call.
ObjId(gen, kind, i) == <<gen, kind, i>>
Null == ObjId(0, "null", 0)
\* semaphores and fences the caller owns
CallerSemaphore(k) == ObjId(0, "callerSemaphore", k)
CallerFence == ObjId(0, "callerFence", 0)
\* value of an output parameter the callee did not write
Untouched == ObjId(0, "untouched", 0)
\* the XrSwapchain handle that is none, and the handles the backend makes for
\* the swapchain created with generation gen
XR_NULL_HANDLE == ObjId(0, "xrNullHandle", 0)
XrSwapchain(gen, kind) == ObjId(gen, kind, 0)
\* DeviceSwapchainWrapImpl::mSwapchain points at the swapchain of the core
\* variables
This == <<>>

\* An entry of the observer's log of calls made on the device, the queue, the
\* command buffers and the backend during one operation.
\* (slot: the command buffer or image index the call is made on; cmds: the
\* content of a submitted command buffer).
Event(e, slot, id, wait, signal, fence, cmds) ==
    [e |-> e, slot |-> slot, id |-> id, wait |-> wait, signal |-> signal,
     fence |-> fence, cmds |-> cmds]
EvWaitIdle == Event("WaitIdle", 0, Null, <<>>, <<>>, Null, <<>>)
EvCreate(id) == Event("Create", 0, id, <<>>, <<>>, Null, <<>>)
EvCreateFailed(id) == Event("CreateFailed", 0, id, <<>>, <<>>, Null, <<>>)
EvDestroy(id) == Event("Destroy", 0, id, <<>>, <<>>, Null, <<>>)
EvBegin(slot) == Event("Begin", slot, Null, <<>>, <<>>, Null, <<>>)
EvEnd(slot) == Event("End", slot, Null, <<>>, <<>>, Null, <<>>)
EvSubmit(slot, wait, signal, fence, cmds) ==
    Event("Submit", slot, Null, wait, signal, fence, cmds)
EvPresentInternal(i, wait) == Event("PresentInternal", i, Null, wait, <<>>, Null, <<>>)
EvAcquireInternal == Event("AcquireNextImageInternal", 0, Null, <<>>, <<>>, Null, <<>>)

\* A command recorded into a command buffer.
\* (srcOffset, dstOffset: the offsets of a copy; a copy info is zero-initialized
\* and RecordPreamble sets its extent only.)
Cmd(op, a, b, from, to, extent) ==
    [op |-> op, a |-> a, b |-> b, from |-> from, to |-> to, extent |-> extent,
     srcOffset |-> <<0, 0>>, dstOffset |-> <<0, 0>>]
CmdTransition(image, from, to) == Cmd("TransitionImageLayout", image, Null, from, to, <<0, 0>>)
CmdBeginRenderPass(rp) == Cmd("BeginRenderPass", rp, Null, "", "", <<0, 0>>)
CmdEndRenderPass == Cmd("EndRenderPass", Null, Null, "", "", <<0, 0>>)
CmdCallback == Cmd("Callback", Null, Null, "", "", <<0, 0>>)
CmdCopy(src, dst, extent) == Cmd("CopyImageToImage", src, dst, "", "", extent)
CmdSetViewports(width, height) == Cmd("SetViewports", Null, Null, "", "", <<width, height>>)
CmdSetScissors(width, height) == Cmd("SetScissors", Null, Null, "", "", <<width, height>>)

Rect(x, y, width, height) == [x |-> x, y |-> y, width |-> width, height |-> height]

\* A uint32_t is written as the int32_t of the same 32 bits, the integers
\* checked having 32 bits and a sign: a value below 2^31 as it is, the value
\* 2^32 - k, for k up to 2^31, as -k.  Limbs(v) is the value of the uint32_t
\* as a number without limit, in two halves <<high, low>> of base 65536 (the
\* number is high * 65536 + low); Plus, Minus, Halved and AtMost are sum,
\* difference, floor of the half and order of such numbers, and FromLimbs is
\* the uint32_t of the low 32 bits of one.
Limbs(v) == <<(v \div 65536) + (IF v < 0 THEN 65536 ELSE 0), v % 65536>>
Plus(p, q) == <<p[1] + q[1] + ((p[2] + q[2]) \div 65536), (p[2] + q[2]) % 65536>>
Minus(p, q) == <<p[1] - q[1] + ((p[2] - q[2]) \div 65536), (p[2] - q[2]) % 65536>>
Halved(p) == <<p[1] \div 2, (p[2] + (p[1] % 2) * 65536) \div 2>>
AtMost(p, q) == p[1] < q[1] \/ (p[1] = q[1] /\ p[2] <= q[2])
FromLimbs(p) ==
    (IF p[1] % 65536 >= 32768 THEN (p[1] % 65536) - 65536 ELSE p[1] % 65536) * 65536 + p[2]

\* the operators of uint32_t: +, - (both modulo 2^32), <, / 2 and std::min
UAdd(a, b) == FromLimbs(Plus(Limbs(a), Limbs(b)))
USub(a, b) == FromLimbs(Minus(Limbs(a), Limbs(b)))
ULess(a, b) == ~AtMost(Limbs(b), Limbs(a))
UHalf(a) == FromLimbs(Halved(Limbs(a)))
UMin(a, b) == IF ULess(b, a) THEN b ELSE a

Min(a, b) == IF a < b THEN a ELSE b

\* the sequence with the elements f[1], ..., f[n]
AsSeq(f) == <<>> \o f

\* ids an event log created / destroyed, in order
EventIds(events, e) ==
    LET sel == SelectSeq(events, LAMBDA x: x.e = e)
    IN AsSeq([k \in 1..Len(sel) |-> sel[k].id])
Occurrences(s, x) == Cardinality({k \in 1..Len(s) : s[k] = x})

\* Whether object id is live just before call k of an event log made on a
\* device whose live objects were `live`.
LiveBefore(live, events, k, id) ==
    LET prior == {j \in 1..(k - 1) : events[j].id = id /\ events[j].e \in {"Create", "Destroy"}}
        last == CHOOSE j \in prior : \A i \in prior : i <= j
    IN IF prior = {} THEN id \in live ELSE events[last].e = "Create"

\* The device's object table after the calls of an event log: the live objects,
\* and the objects a Destroy call was made on while they were not live.
DeviceAfter(dev, events) ==
    LET n == Len(events)
        created == {events[k].id : k \in {j \in 1..n : events[j].e = "Create"}}
        badDestroys == {k \in 1..n : events[k].e = "Destroy"
                                     /\ ~LiveBefore(dev.live, events, k, events[k].id)}
    IN [live |-> {id \in dev.live \cup created : LiveBefore(dev.live, events, n + 1, id)},
        misused |-> dev.misused \cup {events[k].id : k \in badDestroys}]

(***************************************************************************)
(* Swapchain::Target                                                       *)
(***************************************************************************)
EmptyTarget ==
    [width |-> 0, height |-> 0, colorImages |-> <<>>, depthImages |-> <<>>,
     clearRenderPasses |-> <<>>, loadRenderPasses |-> <<>>]

\* The running result of a target construction: the target so far, the result
\* code, the number of device Create calls made so far and the event log.
Step(target, res, calls, events) ==
    [target |-> target, res |-> res, calls |-> calls, events |-> events]

\* failAt is the number of the device Create call, counted over one
\* CreateTarget call, that the device fails (0: none).  Of a loop of n calls
\* entered after `calls` calls: whether a call of the loop fails, and how
\* many succeed.
LoopFails(calls, n, failAt) == failAt > calls /\ failAt <= calls + n
LoopMade(calls, n, failAt) == IF LoopFails(calls, n, failAt) THEN failAt - calls - 1 ELSE n

\* `made` successful Create calls of one kind, each pushing the new object on
\* the vector `field` of the target, then a failing call when `fails`.
Pushed(st, field, kind, gen, made, fails) ==
    Step([st.target EXCEPT ![field] =
            @ \o [k \in 1..made |-> ObjId(gen, kind, Len(@) + k - 1)]],
         IF fails THEN ERROR_API_FAILURE ELSE SUCCESS,
         st.calls + made + (IF fails THEN 1 ELSE 0),
         st.events
           \o [k \in 1..made |-> EvCreate(ObjId(gen, kind, Len(st.target[field]) + k - 1))]
           \o (IF fails
               THEN <<EvCreateFailed(ObjId(gen, kind, Len(st.target[field]) + made))>>
               ELSE <<>>))

\* a loop of n device Create calls
CreateLoop(st, field, kind, n, gen, failAt) ==
    Pushed(st, field, kind, gen, LoopMade(st.calls, n, failAt), LoopFails(st.calls, n, failAt))

CreateColorImages(st, imageCount, gen, failAt) ==
    CreateLoop(st, "colorImages", "color", imageCount, gen, failAt)

WrapColorImages(st, nHandles, gen, failAt) ==
    CreateLoop(st, "colorImages", "color", nHandles, gen, failAt)

CreateDepthImages(st, imageCount, gen, failAt) ==
    CreateLoop(st, "depthImages", "depth", imageCount, gen, failAt)

\* the result of a construction whose loop does not end
DoesNotReturn == "DOES_NOT_RETURN"

\* The loop runs over depthImages.size(), not over the handles, and every
\* pass pushes an image: on a target with no depth image it wraps nothing; on
\* any other target the bound grows with every pass, so that the loop ends
\* only at a device call that fails.
WrapDepthImages(st, nHandles, gen, failAt) ==
    IF Len(st.target.depthImages) = 0 THEN st
    ELSE IF failAt > st.calls
         THEN Pushed(st, "depthImages", "depth", gen, failAt - st.calls - 1, TRUE)
         ELSE Step(st.target, DoesNotReturn, st.calls, st.events)

\* CreateRenderPasses: the loop of the clear passes, then that of the load
\* passes, each over the color images.
CreateLoadRenderPasses(st, gen, failAt) ==
    IF st.res # SUCCESS THEN st
    ELSE CreateLoop(st, "loadRenderPasses", "load", Len(st.target.colorImages), gen, failAt)

CreateRenderPasses(st, gen, failAt) ==
    CreateLoadRenderPasses(
        CreateLoop(st, "clearRenderPasses", "clear", Len(st.target.colorImages), gen, failAt),
        gen, failAt)

\* DestroyRenderPasses, DestroyDepthImages, DestroyColorImages: the ids each
\* passes to the device, in order (null elements are skipped).
DestroyRenderPasses(target) ==
    SelectSeq(target.clearRenderPasses \o target.loadRenderPasses, LAMBDA x: x # Null)
DestroyDepthImages(target) == SelectSeq(target.depthImages, LAMBDA x: x # Null)
DestroyColorImages(target) == SelectSeq(target.colorImages, LAMBDA x: x # Null)

DestroyEvents(ids) == AsSeq([k \in 1..Len(ids) |-> EvDestroy(ids[k])])

\* A DestroyTarget that forgets to clear the color images: the variant
\* against which the idempotence of DestroyTarget is shown to have content.
DestroyTargetKeepingImages(target) ==
    [target |-> [EmptyTarget EXCEPT !.colorImages = target.colorImages],
     events |-> DestroyEvents(DestroyRenderPasses(target) \o DestroyDepthImages(target)
                                \o DestroyColorImages(target))]

\* DestroyTarget: the target it leaves and the Destroy calls it makes
DestroyTarget(target) ==
    [target |-> EmptyTarget,
     events |-> DestroyEvents(DestroyRenderPasses(target) \o DestroyDepthImages(target)
                                \o DestroyColorImages(target))]

\* CreateTargetImpl: the three stages, each entered when the one before it
\* succeeded.
\* A color stage that makes a single image whatever the image count: the
\* variant against which the agreement of targets and slots is shown to have
\* content.
ColorStageOfOneImage(st, nColorHandles, gen, failAt) ==
    IF nColorHandles > 0
    THEN WrapColorImages(st, nColorHandles, gen, failAt)
    ELSE CreateColorImages(st, 1, gen, failAt)

ColorStage(st, nColorHandles, gen, failAt) ==
    IF nColorHandles > 0
    THEN WrapColorImages(st, nColorHandles, gen, failAt)
    ELSE CreateColorImages(st, mCreateInfo.imageCount, gen, failAt)

DepthStage(st, nDepthHandles, gen, failAt) ==
    IF st.res # SUCCESS THEN st
    ELSE IF nDepthHandles > 0
    THEN WrapDepthImages(st, nDepthHandles, gen, failAt)
    ELSE IF mCreateInfo.hasDepth
    THEN CreateDepthImages(st, mCreateInfo.imageCount, gen, failAt)
    ELSE st

RenderPassStage(st, gen, failAt) ==
    IF st.res # SUCCESS THEN st ELSE CreateRenderPasses(st, gen, failAt)

CreateTargetImpl(target, width, height, nColorHandles, nDepthHandles, gen, failAt) ==
    RenderPassStage(
        DepthStage(
            ColorStage(
                Step([target EXCEPT !.width = width, !.height = height], SUCCESS, 0, <<>>),
                nColorHandles, gen, failAt),
            nDepthHandles, gen, failAt),
        gen, failAt)

\* A CreateTarget that hands back what CreateTargetImpl left behind: the
\* variant against which the rollback property is shown to have content.
KeepOnFailure(st) == st

\* CreateTarget's handling of the result of CreateTargetImpl
DestroyOnFailure(st) ==
    IF st.res # SUCCESS /\ st.res # DoesNotReturn
    THEN Step(DestroyTarget(st.target).target, st.res, st.calls,
              st.events \o DestroyTarget(st.target).events)
    ELSE st

CreateTarget(target, width, height, nColorHandles, nDepthHandles, gen, failAt) ==
    DestroyOnFailure(
        CreateTargetImpl(target, width, height, nColorHandles, nDepthHandles, gen, failAt))

\* The width and height parameters are not used: the target is created at the
\* configured size.
CreateIndirectTarget(target, width, height, gen, failAt) ==
    CreateTarget(target, mCreateInfo.width, mCreateInfo.height, 0, 0, gen, failAt)

CreateDeviceTarget(target, nColorHandles, nDepthHandles, gen, failAt) ==
    CreateTarget(target, mCreateInfo.width, mCreateInfo.height,
                 nColorHandles, nDepthHandles, gen, failAt)

\* headless: the create info has no surface (pSurface == nullptr)
IsHeadless == ~mCreateInfo.pXrComponent /\ mCreateInfo.headless

(***************************************************************************)
(* Swapchain: accessors                                                    *)
(***************************************************************************)
IsIndirect == mIsIndirect

\* the target the accessors read: the indirect target when indirect
GetTarget == IF mIsIndirect THEN mIndirectTarget ELSE mDeviceTarget

GetImageCount == mCreateInfo.imageCount

IsIndexInRange(i, container) == i >= 0 /\ i < Len(container)

\* The result-returning accessors: the result code and the value of the output
\* parameter afterwards (Untouched when it was not written).
GetColorImage(imageIndex) ==
    IF ~IsIndexInRange(imageIndex, GetTarget.colorImages)
    THEN [res |-> ERROR_OUT_OF_RANGE, out |-> Untouched]
    ELSE [res |-> SUCCESS, out |-> GetTarget.colorImages[imageIndex + 1]]

\* Swapchain::GetColorImage(imageIndex), the overload that returns the image:
\* its local pointer starts null and is returned as the accessor left it
GetColorImagePtr(imageIndex) ==
    IF GetColorImage(imageIndex).out = Untouched THEN Null
    ELSE GetColorImage(imageIndex).out

GetDepthImage(imageIndex) ==
    IF ~IsIndexInRange(imageIndex, GetTarget.depthImages)
    THEN [res |-> ERROR_OUT_OF_RANGE, out |-> Untouched]
    ELSE [res |-> SUCCESS, out |-> GetTarget.depthImages[imageIndex + 1]]

\* loadOp is "CLEAR" or "LOAD"
GetRenderPass(imageIndex, loadOp) ==
    IF ~IsIndexInRange(imageIndex, GetTarget.clearRenderPasses)
    THEN [res |-> ERROR_OUT_OF_RANGE, out |-> Untouched]
    ELSE IF loadOp = "CLEAR"
         THEN [res |-> SUCCESS, out |-> GetTarget.clearRenderPasses[imageIndex + 1]]
         ELSE [res |-> SUCCESS, out |-> GetTarget.loadRenderPasses[imageIndex + 1]]

GetUIRenderPass(imageIndex) ==
    IF ~IsIndexInRange(imageIndex, mDeviceTarget.loadRenderPasses)
    THEN [res |-> ERROR_OUT_OF_RANGE, out |-> Untouched]
    ELSE [res |-> SUCCESS, out |-> mDeviceTarget.loadRenderPasses[imageIndex + 1]]

(***************************************************************************)
(* Swapchain: the operations as functions of the state they read.  Each    *)
(* returns the fields it changes and the log of the calls it makes.        *)
(***************************************************************************)
\* what an out-of-bounds read of a vector of object pointers yields when the
\* process survives it
Garbage == ObjId(0, "garbage", 0)
At(container, i) == IF IsIndexInRange(i, container) THEN container[i + 1] ELSE Garbage

\* the images CreateRenderPasses puts in the create info of render pass i of
\* a target, clear and load alike
Attachments(target, i) ==
    [color |-> target.colorImages[i + 1],
     depth |-> IF Len(target.depthImages) = 0 THEN Null ELSE At(target.depthImages, i)]

\* The device's table after a target was built: d is the table of live
\* objects after the calls, attached the images each render pass was created
\* with before them; the render passes that are new are those of `target`.
Attach(d, attached, target) ==
    [live |-> d.live, misused |-> d.misused,
     attached |-> [id \in {x \in d.live : x[2] \in {"clear", "load"}} |->
                     IF id \in DOMAIN attached THEN attached[id]
                     ELSE Attachments(target, id[3])]]

\* The entry of mCommandBuffers of a slot whose CreateCommandBuffer failed:
\* Create pushes the pointer as the call left it, which is null.
NullCommandBuffer ==
    [open |-> FALSE, cmds |-> <<Cmd("nullCommandBuffer", Null, Null, "", "", <<0, 0>>)>>]

\* CommandBuffer::Begin and End, and the recording of commands.  A call made
\* through a null pointer leaves the entry marked as open: the mark of a
\* null pointer that was dereferenced.
BeginCommandBuffer(cb) ==
    IF cb.cmds = NullCommandBuffer.cmds THEN [NullCommandBuffer EXCEPT !.open = TRUE]
    ELSE [open |-> TRUE, cmds |-> <<>>]
EndCommandBuffer(cb) ==
    IF cb.cmds = NullCommandBuffer.cmds THEN [NullCommandBuffer EXCEPT !.open = TRUE]
    ELSE [cb EXCEPT !.open = FALSE]
Record(cb, cmds) ==
    IF cb.cmds = NullCommandBuffer.cmds THEN [NullCommandBuffer EXCEPT !.open = TRUE]
    ELSE [cb EXCEPT !.cmds = @ \o cmds]

\* an operation that left the command buffers cbs called a member of a
\* command buffer through a null pointer
NullDereferenced(cbs) ==
    \E k \in DOMAIN cbs : cbs[k] = [NullCommandBuffer EXCEPT !.open = TRUE]

\* the commands RecordPreamble records in indirect mode
CopyCommands(srcImage, dstImage, dstClear, extent) ==
    << CmdTransition(dstImage, "PRESENT", "RENDER_TARGET"),
       CmdBeginRenderPass(dstClear),
       CmdEndRenderPass,
       CmdTransition(dstImage, "RENDER_TARGET", "COPY_DST"),
       CmdTransition(srcImage, "PRESENT", "COPY_SRC"),
       CmdCopy(srcImage, dstImage, extent),
       CmdTransition(srcImage, "COPY_SRC", "PRESENT"),
       CmdTransition(dstImage, "COPY_DST", "PRESENT") >>

PreambleCommands(imageIndex) ==
    CopyCommands(At(mIndirectTarget.colorImages, imageIndex),
                 At(mDeviceTarget.colorImages, imageIndex),
                 At(mDeviceTarget.clearRenderPasses, imageIndex),
                 <<Min(mCreateInfo.width, mIndirectTarget.width),
                   Min(mCreateInfo.height, mIndirectTarget.height)>>)

\* the result of an operation that does nothing
Nothing(cbs, rec) == [cbs |-> cbs, rec |-> rec, events |-> <<>>, ub |-> FALSE]

\* the state RecordPreamble leaves when it begins the slot's command buffer
Begun(cbs, rec, imageIndex) ==
    [cbs |-> [cbs EXCEPT ![imageIndex + 1] =
                IF IsIndirect
                THEN Record(BeginCommandBuffer(@), PreambleCommands(imageIndex))
                ELSE BeginCommandBuffer(@)],
     rec |-> [rec EXCEPT ![imageIndex + 1] = TRUE],
     events |-> <<EvBegin(imageIndex)>>,
     ub |-> IsIndirect /\
            (~IsIndexInRange(imageIndex, mIndirectTarget.colorImages)
             \/ ~IsIndexInRange(imageIndex, mDeviceTarget.colorImages))]

\* A RecordPreamble that does not look at the recording flag: the variant
\* against which the idempotence property is shown to have content.
RecordPreambleAgain(cbs, rec, imageIndex) ==
    IF IsHeadless THEN Nothing(cbs, rec) ELSE Begun(cbs, rec, imageIndex)

\* RecordPreamble on the command buffers cbs and recording flags rec.
\* ub: the call read a vector out of bounds.
RecordPreamble(cbs, rec, imageIndex) ==
    IF IsHeadless \/ rec[imageIndex + 1]
    THEN Nothing(cbs, rec)
    ELSE Begun(cbs, rec, imageIndex)

\* the commands RecordUI records around the callback
RenderPassCommands(image, renderPass) ==
    << CmdTransition(image, "PRESENT", "RENDER_TARGET"),
       CmdBeginRenderPass(renderPass),
       CmdCallback,
       CmdEndRenderPass,
       CmdTransition(image, "RENDER_TARGET", "PRESENT") >>

UICommands(imageIndex) ==
    RenderPassCommands(At(mDeviceTarget.colorImages, imageIndex),
                       At(mDeviceTarget.loadRenderPasses, imageIndex))

\* RecordUI after its call of RecordPreamble returned p
RecordUIInto(p, slot, imageIndex) ==
    [p EXCEPT !.cbs[slot + 1] = Record(@, UICommands(imageIndex))]

RecordUI(cbs, rec, imageIndex) ==
    RecordUIInto(RecordPreamble(cbs, rec, imageIndex), mCurrentImageIndex, imageIndex)

\* A Present that reports a suboptimal surface as success: the variant
\* against which the truthful reporting is shown to have content.
SubmitAndPresentNormalizing(p, slot, imageIndex, wait, post, result) ==
    [cbs |-> p.cbs, rec |-> [p.rec EXCEPT ![imageIndex + 1] = FALSE],
     events |-> p.events \o <<EvPresentInternal(imageIndex, wait)>>,
     ub |-> p.ub,
     res |-> IF result = ERROR_SUBOPTIMAL THEN SUCCESS ELSE result]

\* A Present that clears the recording flag only when the backend present
\* succeeded: the variant against which the clearing of the flag on every
\* result is shown to have content.
SubmitAndPresentKeepingFlag(p, slot, imageIndex, wait, post, result) ==
    IF p.rec[imageIndex + 1]
    THEN [cbs |-> [p.cbs EXCEPT ![slot + 1] = EndCommandBuffer(@)],
          rec |-> [p.rec EXCEPT ![imageIndex + 1] = (result # SUCCESS)],
          events |-> p.events \o
              << EvEnd(slot),
                 EvSubmit(slot, wait, post, Null, p.cbs[slot + 1].cmds),
                 EvPresentInternal(imageIndex, post) >>,
          ub |-> p.ub,
          res |-> result]
    ELSE [cbs |-> p.cbs, rec |-> p.rec,
          events |-> p.events \o <<EvPresentInternal(imageIndex, wait)>>,
          ub |-> p.ub,
          res |-> result]

\* Present after its preamble step returned p: the submission of the command
\* buffer of `slot` and the backend present, which returns `result`.
SubmitAndPresent(p, slot, imageIndex, wait, post, result) ==
    IF p.rec[imageIndex + 1]
    THEN [cbs |-> [p.cbs EXCEPT ![slot + 1] = EndCommandBuffer(@)],
          rec |-> [p.rec EXCEPT ![imageIndex + 1] = FALSE],
          events |-> p.events \o
              << EvEnd(slot),
                 EvSubmit(slot, wait, post, Null, p.cbs[slot + 1].cmds),
                 EvPresentInternal(imageIndex, post) >>,
          ub |-> p.ub,
          res |-> result]
    ELSE [cbs |-> p.cbs, rec |-> p.rec,
          events |-> p.events \o <<EvPresentInternal(imageIndex, wait)>>,
          ub |-> p.ub,
          res |-> result]

\* A Present that records the preamble whether or not the swapchain is
\* indirect: the variant against which the property of disabled indirection
\* is shown to have content.
PresentWithPreamble(cbs, rec, imageIndex, wait, result) ==
    SubmitAndPresent(
        RecordPreamble(cbs, rec, imageIndex),
        mCurrentImageIndex, imageIndex, wait,
        <<mPostProcessSemaphores[imageIndex + 1]>>, result)

\* Present on a swapchain with a surface
Present(cbs, rec, imageIndex, wait, result) ==
    SubmitAndPresent(
        IF IsIndirect THEN RecordPreamble(cbs, rec, imageIndex) ELSE Nothing(cbs, rec),
        mCurrentImageIndex, imageIndex, wait,
        <<mPostProcessSemaphores[imageIndex + 1]>>, result)

\* AcquireNextImage on a swapchain with a surface: the backend's acquire,
\* which returns `result`.  It writes the image it hands out (index) to
\* *pImageIndex when it acquired one (SUCCESS, ERROR_SUBOPTIMAL); otherwise
\* *pImageIndex keeps the value the caller's variable had (imageIndex).
AcquireNextImage(result, index, imageIndex) ==
    [res |-> result,
     index |-> IF result \in {SUCCESS, ERROR_SUBOPTIMAL} THEN index ELSE imageIndex,
     events |-> <<EvAcquireInternal>>]

\* An XR acquire without the assertion on the two indices: the variant
\* against which the lock step is shown to have content.
XrAcquireNextImageUnchecked(colorIndex, depthIndex, hasColorSwapchain, hasDepthSwapchain, semaphore, fence) ==
    [res |-> SUCCESS,
     index |-> IF hasDepthSwapchain THEN depthIndex ELSE colorIndex,
     events |-> << Event("xrAcquireSwapchainImage", colorIndex, Null, <<>>, <<>>, Null, <<>>),
                   Event("xrWaitSwapchainImage", colorIndex, Null, <<>>, <<>>, Null, <<>>) >>
                \o (IF hasDepthSwapchain
                    THEN << Event("xrAcquireSwapchainImage", depthIndex, Null, <<>>, <<>>, Null, <<>>),
                            Event("xrWaitSwapchainImage", depthIndex, Null, <<>>, <<>>, Null, <<>>) >>
                    ELSE <<>>),
     entered |-> hasColorSwapchain /\ semaphore = Null /\ fence = Null,
     asserted |-> \/ ~hasColorSwapchain
                  \/ semaphore # Null
                  \/ fence # Null]

\* Swapchain::AcquireNextImage of a swapchain made with an XR component: the
\* color swapchain hands out colorIndex and, when there is a depth swapchain,
\* the depth swapchain hands out depthIndex, which is written over the color
\* index in *pImageIndex.  entered: the three assertions made before the
\* first call hold (a color swapchain handle that is not null, no semaphore,
\* no fence); asserted: one of the call's assertions (those three, and equal
\* indices after the calls on the depth swapchain) does not hold.  The only
\* result the path returns is SUCCESS.
XrAcquireNextImage(colorIndex, depthIndex, hasColorSwapchain, hasDepthSwapchain, semaphore, fence) ==
    [res |-> SUCCESS,
     index |-> IF hasDepthSwapchain THEN depthIndex ELSE colorIndex,
     events |-> << Event("xrAcquireSwapchainImage", colorIndex, Null, <<>>, <<>>, Null, <<>>),
                   Event("xrWaitSwapchainImage", colorIndex, Null, <<>>, <<>>, Null, <<>>) >>
                \o (IF hasDepthSwapchain
                    THEN << Event("xrAcquireSwapchainImage", depthIndex, Null, <<>>, <<>>, Null, <<>>),
                            Event("xrWaitSwapchainImage", depthIndex, Null, <<>>, <<>>, Null, <<>>) >>
                    ELSE <<>>),
     entered |-> hasColorSwapchain /\ semaphore = Null /\ fence = Null,
     asserted |-> \/ ~hasColorSwapchain
                  \/ semaphore # Null
                  \/ fence # Null
                  \/ hasDepthSwapchain /\ colorIndex # depthIndex]

\* a command buffer begun and ended at once, and its submission
SubmitEmpty(cbs, slot, wait, signal, fence) ==
    [cbs |-> [cbs EXCEPT ![slot + 1] = EndCommandBuffer(BeginCommandBuffer(@))],
     index |-> slot,
     events |-> <<EvBegin(slot), EvEnd(slot), EvSubmit(slot, wait, signal, fence, <<>>)>>,
     res |-> SUCCESS]

\* A PresentHeadless that submits the command buffer of the slot it is given:
\* the variant against which the choice of the current slot is shown to have
\* content.
PresentHeadlessOfGivenSlot(cbs, imageIndex, wait) ==
    SubmitEmpty(cbs, imageIndex, wait, <<>>, Null)

PresentHeadless(cbs, imageIndex, wait) ==
    SubmitEmpty(cbs, mCurrentImageIndex, wait, <<>>, Null)

\* An acquire that does not advance: the variant against which the
\* round-robin property is shown to have content.
StuckImageIndex(current, count) == current % count

\* the index AcquireNextImageHeadless selects (count is not zero)
NextImageIndex(current, count) == (current + 1) % count

AcquireNextImageHeadless(cbs, semaphore, fence) ==
    SubmitEmpty(cbs, NextImageIndex(mCurrentImageIndex, Len(mIndirectTarget.colorImages)),
                <<>>, <<semaphore>>, fence)

\* A SetIndirectRenderSize that waits for the queue after it destroyed the
\* target: the variant against which the order of wait and teardown is shown
\* to have content.
DestroyThenWaitIdle(d, isIndirect, c) ==
    IF ~isIndirect
    THEN [isIndirect |-> isIndirect, target |-> d.target, res |-> SUCCESS,
          events |-> d.events \o <<EvWaitIdle>>, created |-> FALSE]
    ELSE [isIndirect |-> isIndirect, target |-> c.target, res |-> c.res,
          events |-> d.events \o <<EvWaitIdle>> \o c.events, created |-> TRUE]

\* SetIndirectRenderSize after DestroyIndirectTarget returned d: the target is
\* created again when both dimensions are not zero.
CreateAfterDestroy(d, isIndirect, c) ==
    IF ~isIndirect
    THEN [isIndirect |-> isIndirect, target |-> d.target, res |-> SUCCESS,
          events |-> <<EvWaitIdle>> \o d.events, created |-> FALSE]
    ELSE [isIndirect |-> isIndirect, target |-> c.target, res |-> c.res,
          events |-> <<EvWaitIdle>> \o d.events \o c.events, created |-> TRUE]

\* SetIndirectRenderSize: the new flag and indirect target, the result and the
\* calls made.  gen and failAt: see Pushed.
SetIndirectRenderSize(width, height, gen, failAt) ==
    IF mIndirectTarget.width = width /\ mIndirectTarget.height = height
    THEN [isIndirect |-> (width # 0 /\ height # 0), target |-> mIndirectTarget,
          res |-> SUCCESS, events |-> <<>>, created |-> FALSE]
    ELSE CreateAfterDestroy(
            DestroyTarget(mIndirectTarget),
            (width # 0 /\ height # 0),
            CreateIndirectTarget(DestroyTarget(mIndirectTarget).target,
                                 width, height, gen, failAt))

\* the slots whose command buffer Destroy hands to DestroyCommandBuffer: those
\* whose pointer is not null
OwnedCommandBuffers ==
    SelectSeq(AsSeq([k \in 1..Len(mCommandBuffers) |-> k - 1]),
              LAMBDA slot: mCommandBuffers[slot + 1] # NullCommandBuffer)

\* xrDestroySwapchain of the XR color swapchain and of the XR depth swapchain,
\* each when its handle is not XR_NULL_HANDLE
DestroyXrSwapchains ==
    (IF mXrColorSwapchain # XR_NULL_HANDLE
     THEN <<Event("xrDestroySwapchain", 0, mXrColorSwapchain, <<>>, <<>>, Null, <<>>)>>
     ELSE <<>>)
    \o (IF mXrDepthSwapchain # XR_NULL_HANDLE
        THEN <<Event("xrDestroySwapchain", 0, mXrDepthSwapchain, <<>>, <<>>, Null, <<>>)>>
        ELSE <<>>)

\* A Destroy that tears the device target down before the indirect target:
\* the variant against which the order of the teardown is shown to have
\* content.
DestroyDeviceTargetFirst ==
    DestroyTarget(mDeviceTarget).events
    \o DestroyTarget(mIndirectTarget).events
    \o DestroyXrSwapchains
    \o DestroyEvents(mPostProcessSemaphores)
    \o AsSeq([k \in 1..Len(OwnedCommandBuffers) |->
          Event("DestroyCommandBuffer", OwnedCommandBuffers[k], Null, <<>>, <<>>, Null, <<>>)])
    \o <<Event("DeviceObjectDestroy", 0, Null, <<>>, <<>>, Null, <<>>)>>

\* Swapchain::Destroy: the calls it makes, the last two kinds being the
\* queue's DestroyCommandBuffer on the command buffer of a slot and the base
\* class's Destroy.  The XR handles are not reset.
Destroy ==
    DestroyTarget(mIndirectTarget).events
    \o DestroyTarget(mDeviceTarget).events
    \o DestroyXrSwapchains
    \o DestroyEvents(mPostProcessSemaphores)
    \o AsSeq([k \in 1..Len(OwnedCommandBuffers) |->
          Event("DestroyCommandBuffer", OwnedCommandBuffers[k], Null, <<>>, <<>>, Null, <<>>)])
    \o <<Event("DeviceObjectDestroy", 0, Null, <<>>, <<>>, Null, <<>>)>>

(***************************************************************************)
(* The wraps of ppx/swapchain.cpp.  Each operation of a wrap is a function  *)
(* of the result of the call it made on the swapchain it wraps; it returns  *)
(* the result it hands on, the fields it changes and the calls it makes.    *)
(***************************************************************************)
\* the results a surface gives while it is being resized
Transient == {ERROR_OUT_OF_DATE, ERROR_SUBOPTIMAL}

\* a submission without a command buffer
EvSubmitNothing(signal, fence) ==
    Event("SubmitNothing", 0, Null, <<>>, signal, fence, <<>>)

\* The result of an operation of a wrap.  index: the image index the caller
\* reads (on an acquire).
Wrapped(res, needUpdate, index, events) ==
    [res |-> res, needUpdate |-> needUpdate, index |-> index, events |-> events]

\* An AcquireNextImage that clears the flag when the acquire was not
\* transient: the variant against which the latch is shown to have content.
DeviceWrapAcquireClearing(ppxres, index, semaphore, fence) ==
    IF ppxres = ERROR_OUT_OF_DATE
    THEN IF mAbsorbError
         THEN Wrapped(SUCCESS, TRUE, 0, <<EvSubmitNothing(<<semaphore>>, fence)>>)
         ELSE Wrapped(ppxres, TRUE, index, <<>>)
    ELSE IF ppxres = ERROR_SUBOPTIMAL
         THEN Wrapped(IF mAbsorbError THEN SUCCESS ELSE ppxres, TRUE, index, <<>>)
         ELSE Wrapped(ppxres, FALSE, index, <<>>)

\* DeviceSwapchainWrapImpl::AcquireNextImage, after mSwapchain's
\* AcquireNextImage returned ppxres and wrote index
DeviceWrapAcquireNextImage(ppxres, index, semaphore, fence) ==
    IF ppxres = ERROR_OUT_OF_DATE
    THEN IF mAbsorbError
         THEN Wrapped(SUCCESS, TRUE, 0, <<EvSubmitNothing(<<semaphore>>, fence)>>)
         ELSE Wrapped(ppxres, TRUE, index, <<>>)
    ELSE IF ppxres = ERROR_SUBOPTIMAL
         THEN Wrapped(IF mAbsorbError THEN SUCCESS ELSE ppxres, TRUE, index, <<>>)
         ELSE Wrapped(ppxres, mNeedUpdate, index, <<>>)

\* A Present that absorbs an out-of-date surface only: the variant against
\* which the absorption property is shown to have content.
DeviceWrapPresentOutOfDateOnly(ppxres) ==
    IF ppxres = ERROR_OUT_OF_DATE
    THEN Wrapped(IF mAbsorbError THEN SUCCESS ELSE ppxres, TRUE, 0, <<>>)
    ELSE Wrapped(ppxres, mNeedUpdate, 0, <<>>)

\* DeviceSwapchainWrapImpl::Present, after mSwapchain's Present returned ppxres
DeviceWrapPresent(ppxres) ==
    IF ppxres = ERROR_OUT_OF_DATE \/ ppxres = ERROR_SUBOPTIMAL
    THEN Wrapped(IF mAbsorbError THEN SUCCESS ELSE ppxres, TRUE, 0, <<>>)
    ELSE Wrapped(ppxres, mNeedUpdate, 0, <<>>)

\* An AcquireNextImage that turns an out-of-date surface into SUCCESS without
\* the empty submission: the variant against which the release of the
\* caller's semaphore and fence is shown to have content.
IndirectAcquireWithoutSubmit(ppxres, index, semaphore, fence) ==
    IF ppxres = ERROR_SUBOPTIMAL
    THEN Wrapped(SUCCESS, mNeedUpdate, index, <<>>)
    ELSE IF ppxres = ERROR_OUT_OF_DATE
         THEN Wrapped(SUCCESS, mNeedUpdate, 0, <<>>)
         ELSE Wrapped(ppxres, mNeedUpdate, index, <<>>)

\* IndirectSwapchain::AcquireNextImage, after mNext's AcquireNextImage
\* returned ppxres and wrote index
IndirectAcquireNextImage(ppxres, index, semaphore, fence) ==
    IF ppxres = ERROR_SUBOPTIMAL
    THEN Wrapped(SUCCESS, mNeedUpdate, index, <<>>)
    ELSE IF ppxres = ERROR_OUT_OF_DATE
         THEN Wrapped(SUCCESS, mNeedUpdate, 0, <<EvSubmitNothing(<<semaphore>>, fence)>>)
         ELSE Wrapped(ppxres, mNeedUpdate, index, <<>>)

\* A Present that hands an out-of-date surface on: the variant against which
\* the unconditional absorption is shown to have content.
IndirectPresentSuboptimalOnly(ppxres) ==
    IF ppxres = ERROR_SUBOPTIMAL
    THEN Wrapped(SUCCESS, mNeedUpdate, 0, <<>>)
    ELSE Wrapped(ppxres, mNeedUpdate, 0, <<>>)

\* IndirectSwapchain::Present, after mNext's Present returned ppxres
IndirectPresent(ppxres) ==
    IF ppxres = ERROR_SUBOPTIMAL \/ ppxres = ERROR_OUT_OF_DATE
    THEN Wrapped(SUCCESS, mNeedUpdate, 0, <<>>)
    ELSE Wrapped(ppxres, mNeedUpdate, 0, <<>>)

\* Swapchain::GetRenderArea of DeviceSwapchainWrap: the whole image
GetRenderArea == Rect(0, 0, mCreateInfo.width, mCreateInfo.height)

\* VirtualSwapchain::GetRenderArea
VirtualGetRenderArea ==
    IF mRenderArea.width = 0 \/ mRenderArea.height = 0
    THEN Rect(0, 0, mVirtualCreateInfo.width, mVirtualCreateInfo.height)
    ELSE mRenderArea

\* Values of a grfx::Rect: x and y are int32_t, from -AreaSize to below
\* AreaSize; width and height are uint32_t, from 0 to below 2 * AreaSize and
\* the three largest, 2^32 - 3, 2^32 - 2 and 2^32 - 1 (written -3, -2, -1).
RenderAreas ==
    [x : (-AreaSize)..(AreaSize - 1),
     y : (-AreaSize)..(AreaSize - 1),
     width : 0..(2 * AreaSize - 1) \cup {-3, -2, -1},
     height : 0..(2 * AreaSize - 1) \cup {-3, -2, -1}]

\* VirtualSwapchain::UpdateRenderArea: the value of mRenderArea it leaves.
\* The sum of the int32_t x and the uint32_t width is computed as uint32_t,
\* modulo 2^32, and compared as uint32_t with the image's width.
UpdateRenderArea(renderArea) ==
    IF renderArea = VirtualGetRenderArea
    THEN mRenderArea
    ELSE IF \/ renderArea.x < 0
            \/ renderArea.y < 0
            \/ renderArea.width = 0
            \/ renderArea.height = 0
            \/ ULess(mVirtualCreateInfo.width, UAdd(renderArea.x, renderArea.width))
            \/ ULess(mVirtualCreateInfo.height, UAdd(renderArea.y, renderArea.height))
         THEN mRenderArea
         ELSE renderArea

\* The command buffers and semaphores a wrap makes in InitPostProcess, of the
\* generation of the call that made them.
WrapObject(gen, layer, kind, i) == ObjId(gen, layer \o kind, i)

\* RenderPassImpl and WithPostProcess as constructed: UpdateRenderPass and
\* InitPostProcess have not run
NoRenderPass ==
    [clearRenderPasses |-> <<>>, loadRenderPasses |-> <<>>, attachments |-> <<>>,
     device |-> FALSE]
NoPostProcess == [queue |-> FALSE, commandBuffers |-> <<>>, semaphores |-> <<>>]

\* RenderPassImpl::UpdateRenderPass without its call of Cleanup: the variant
\* against which the rebuilding of the cache is shown to have content.
UpdateRenderPassKeeping(cache, target, hasDepth, n, gen, failAt) ==
    LET kept == Step([clearRenderPasses |-> cache.clearRenderPasses,
                      loadRenderPasses |-> cache.loadRenderPasses], SUCCESS, 0, <<>>)
        clear == CreateLoop(kept, "clearRenderPasses", "wrapClear", n, gen, failAt)
        all == IF clear.res # SUCCESS THEN clear
               ELSE CreateLoop(clear, "loadRenderPasses", "wrapLoad", n, gen, failAt)
    IN [cache |-> [clearRenderPasses |-> all.target.clearRenderPasses,
                   loadRenderPasses |-> all.target.loadRenderPasses,
                   attachments |-> [i \in 1..n |->
                       [color |-> IF i <= Len(target.colorImages)
                                  THEN target.colorImages[i] ELSE Null,
                        depth |-> IF hasDepth /\ i <= Len(target.depthImages)
                                  THEN target.depthImages[i] ELSE Null]],
                   device |-> TRUE],
        res |-> all.res, events |-> all.events]

\* RenderPassImpl::UpdateRenderPass on a swapchain with n images, those of
\* `target`: Cleanup destroys the clear passes, then the load passes, of the
\* cache; then the loop of the clear passes and that of the load passes, each
\* of n device Create calls, of which call failAt fails (0: none).
\* attachments[i + 1]: the images GetColorImage(i) and GetDepthImage(i) hand
\* to the create info of the passes i (null when out of range).
UpdateRenderPass(cache, target, hasDepth, n, gen, failAt) ==
    LET cleaned == Step([clearRenderPasses |-> <<>>, loadRenderPasses |-> <<>>], SUCCESS, 0,
                        DestroyEvents(cache.clearRenderPasses \o cache.loadRenderPasses))
        clear == CreateLoop(cleaned, "clearRenderPasses", "wrapClear", n, gen, failAt)
        all == IF clear.res # SUCCESS THEN clear
               ELSE CreateLoop(clear, "loadRenderPasses", "wrapLoad", n, gen, failAt)
    IN [cache |-> [clearRenderPasses |-> all.target.clearRenderPasses,
                   loadRenderPasses |-> all.target.loadRenderPasses,
                   attachments |-> [i \in 1..n |->
                       [color |-> IF i <= Len(target.colorImages)
                                  THEN target.colorImages[i] ELSE Null,
                        depth |-> IF hasDepth /\ i <= Len(target.depthImages)
                                  THEN target.depthImages[i] ELSE Null]],
                   device |-> TRUE],
        res |-> all.res, events |-> all.events]

\* RenderPassImpl::GetRenderPass through Swapchain::GetRenderPass, which
\* hands out a null pass when the index is out of range of the clear passes;
\* the load passes are read without a test of their own, past their end when
\* they are fewer than the clear passes (Garbage, when the process survives
\* the read)
WrapGetRenderPass(imageIndex, loadOp) ==
    IF ~IsIndexInRange(imageIndex, mRenderPass.clearRenderPasses) THEN Null
    ELSE IF loadOp = "CLEAR"
         THEN mRenderPass.clearRenderPasses[imageIndex + 1]
         ELSE At(mRenderPass.loadRenderPasses, imageIndex)

\* WithPostProcess<T>::InitPostProcess on a wrap of n images: one
\* CreateCommandBuffer call of the queue per image, whose result is not looked
\* at (call number failCb fails and leaves a null pointer, 0: none), then one
\* semaphore per image (the device is taken to make it: a failure of
\* CreateSemaphore is asserted on).
InitPostProcess(layer, n, gen, failCb) ==
    [pp |-> [queue |-> TRUE,
             commandBuffers |-> AsSeq([k \in 1..n |->
                                   IF k = failCb THEN Null
                                   ELSE WrapObject(gen, layer, "CommandBuffer", k - 1)]),
             semaphores |-> AsSeq([k \in 1..n |-> WrapObject(gen, layer, "Semaphore", k - 1)])],
     events |-> AsSeq([k \in 1..n |->
                    IF k = failCb
                    THEN Event("CreateCommandBufferFailed", k - 1, Null, <<>>, <<>>, Null, <<>>)
                    ELSE Event("CreateCommandBuffer", k - 1,
                               WrapObject(gen, layer, "CommandBuffer", k - 1),
                               <<>>, <<>>, Null, <<>>)])
                \o AsSeq([k \in 1..n |-> EvCreate(WrapObject(gen, layer, "Semaphore", k - 1))])]

\* the device Create calls of an event log, and the number a failing call has
\* when the calls are counted from a point `calls` calls into the operation
CreateCalls(events) == Len(SelectSeq(events, LAMBDA x: x.e \in {"Create", "CreateFailed"}))
FailAfter(failAt, calls) == IF failAt > calls THEN failAt - calls ELSE 0

\* VirtualSwapchainImpl::InitVirtualSwapchain on a virtual swapchain as
\* constructed, of n images: the loop of the color images, the loop of the
\* depth images when there is a depth format, each returning at the call
\* that fails, then OnUpdate, which builds the render pass cache.
InitVirtualSwapchain(n, hasDepth, gen, failAt) ==
    LET color == CreateLoop(Step([colorImages |-> <<>>, depthImages |-> <<>>], SUCCESS, 0, <<>>),
                            "colorImages", "virtualColor", n, gen, failAt)
        depth == IF color.res = SUCCESS /\ hasDepth
                 THEN CreateLoop(color, "depthImages", "virtualDepth", n, gen, failAt)
                 ELSE color
        u == UpdateRenderPass(NoRenderPass, depth.target, hasDepth, n, gen,
                              FailAfter(failAt, depth.calls))
    IN IF depth.res # SUCCESS
       THEN [images |-> depth.target, cache |-> NoRenderPass, res |-> depth.res,
             calls |-> depth.calls, events |-> depth.events]
       ELSE [images |-> depth.target, cache |-> u.cache, res |-> u.res,
             calls |-> depth.calls + CreateCalls(u.events),
             events |-> depth.events \o u.events]

\* VirtualSwapchain::Create: InitVirtualSwapchain, InitPostProcess and
\* OnUpdate once more, the result of none of them being looked at.  The
\* second OnUpdate destroys the passes the first one made and makes them
\* again (generation gen + 1).  failAt numbers the CreateImage and
\* CreateRenderPass calls of the whole operation.
VirtualSwapchainCreate(n, hasDepth, gen, failAt, failCb) ==
    LET init == InitVirtualSwapchain(n, hasDepth, gen, failAt)
        pp == InitPostProcess("Virtual", n, gen, failCb)
        u == UpdateRenderPass(init.cache, init.images, hasDepth, n, gen + 1,
                              FailAfter(failAt, init.calls))
    IN [virtual |-> [colorImages |-> init.images.colorImages,
                     depthImages |-> init.images.depthImages,
                     renderPass |-> u.cache],
        pp |-> pp.pp,
        events |-> init.events \o pp.events \o u.events]

\* Swapchain::GetColorImage(imageIndex) of the virtual swapchain: a null
\* image when the index is out of range
VirtualGetColorImage(imageIndex) ==
    IF IsIndexInRange(imageIndex, mVirtual.colorImages)
    THEN mVirtual.colorImages[imageIndex + 1]
    ELSE Null

\* where RecordCommands ends when the render pass it was handed is null: at
\* the call of GetRenderArea through the null pointer
CmdNullRenderPass == Cmd("nullRenderPass", Null, Null, "", "", <<0, 0>>)

\* Swapchain::Resize(width, height) of a swapchain with a surface.  Of its
\* code this much is known: it waits for the queue to be idle, tears the
\* device target down and builds it again, width wide and height high, from
\* the surface's new images.  result: what the backend's own part returns;
\* torn: whether a backend that fails does so after the wait and the
\* teardown (the device target is then gone) or before them; failAt: the
\* device Create call of the rebuild that fails (0: none), in which case the
\* rebuild is rolled back and its failure returned.
Resize(width, height, result, torn, gen, failAt) ==
    LET d == DestroyTarget(mDeviceTarget)
        c == CreateTarget(d.target, width, height, mCreateInfo.imageCount, 0, gen, failAt)
    IN IF result # SUCCESS
       THEN IF torn
            THEN [res |-> result, target |-> d.target, events |-> <<EvWaitIdle>> \o d.events]
            ELSE [res |-> result, target |-> mDeviceTarget, events |-> <<>>]
       ELSE [res |-> c.res, target |-> c.target,
             events |-> <<EvWaitIdle>> \o d.events \o c.events]

\* SwapchainPresentHook::RecordCommands
HookRecordCommands(imageIndex) ==
    IF WrapGetRenderPass(imageIndex, "LOAD") = Null
    THEN << CmdTransition(GetColorImagePtr(imageIndex), "PRESENT", "RENDER_TARGET"),
            CmdNullRenderPass >>
    ELSE
    << CmdTransition(GetColorImagePtr(imageIndex), "PRESENT", "RENDER_TARGET"),
       CmdBeginRenderPass(WrapGetRenderPass(imageIndex, "LOAD")) >>
    \o (IF mOnPresent
        THEN << CmdSetViewports(GetRenderArea.width, GetRenderArea.height),
                CmdSetScissors(GetRenderArea.width, GetRenderArea.height),
                CmdCallback >>
        ELSE <<>>)
    \o << CmdEndRenderPass,
          CmdTransition(GetColorImagePtr(imageIndex), "RENDER_TARGET", "PRESENT") >>

\* A copy that is not centred: the variant against which the centring of the
\* blit is shown to have content.
IndirectCopyAtOrigin(c, src, dst) ==
    [c EXCEPT
       !.srcOffset = <<src.x, src.y>>,
       !.dstOffset = <<dst.x, dst.y>>,
       !.extent = <<UMin(src.width, dst.width), UMin(src.height, dst.height)>>]

\* the copy IndirectSwapchain::RecordCommands computes from the render areas
\* src (its own) and dst (the next swapchain's), in uint32_t arithmetic
IndirectCopy(c, src, dst) ==
    [c EXCEPT
       !.srcOffset = << UAdd(src.x, IF ULess(dst.width, src.width)
                                    THEN UHalf(USub(src.width, dst.width)) ELSE 0),
                        UAdd(src.y, IF ULess(dst.height, src.height)
                                    THEN UHalf(USub(src.height, dst.height)) ELSE 0) >>,
       !.dstOffset = << UAdd(dst.x, IF ULess(dst.width, src.width)
                                    THEN 0 ELSE UHalf(USub(dst.width, src.width))),
                        UAdd(dst.y, IF ULess(dst.height, src.height)
                                    THEN 0 ELSE UHalf(USub(dst.height, src.height))) >>,
       !.extent = <<UMin(src.width, dst.width), UMin(src.height, dst.height)>>]

\* IndirectSwapchain::RecordCommands
IndirectRecordCommands(imageIndex) ==
    IF WrapGetRenderPass(imageIndex, "CLEAR") = Null
    THEN << CmdTransition(GetColorImagePtr(imageIndex), "PRESENT", "RENDER_TARGET"),
            CmdNullRenderPass >>
    ELSE
    [CopyCommands(VirtualGetColorImage(imageIndex),
                  GetColorImagePtr(imageIndex),
                  WrapGetRenderPass(imageIndex, "CLEAR"),
                  <<0, 0>>)
       EXCEPT ![6] = IndirectCopy(@, VirtualGetRenderArea, GetRenderArea)]

\* the call of Present on the swapchain a wrap is put on
EvPresent(imageIndex, wait) == Event("Present", imageIndex, Null, wait, <<>>, Null, <<>>)

\* WithPostProcess<T>::Present up to its call of T::Present: the calls made,
\* the last of them the call of Present on the wrapped swapchain.  cb, sem: the
\* wrap's command buffer and semaphore of the image; cmds: what
\* T::RecordCommands records.  The process ends at the call of Begin through
\* a null command buffer, and in RecordCommands at a null render pass: the
\* calls stop there.
PostProcessPresent(cb, sem, imageIndex, wait, cmds) ==
    IF cb = Null THEN <<>>
    ELSE IF cmds[Len(cmds)] = CmdNullRenderPass
    THEN << Event("Begin", imageIndex, cb, <<>>, <<>>, Null, <<>>) >>
    ELSE
    << Event("Begin", imageIndex, cb, <<>>, <<>>, Null, <<>>),
       Event("End", imageIndex, cb, <<>>, <<>>, Null, <<>>),
       Event("Submit", imageIndex, cb, wait, <<sem>>, Null, cmds),
       EvPresent(imageIndex, <<sem>>) >>

\* The calls a wrap makes in Present before the wrapped swapchain's Present
\* runs (DeviceSwapchainWrap: the call alone).
PresentCalls(layer, imageIndex, wait) ==
    IF layer = "Device"
    THEN <<EvPresent(imageIndex, wait)>>
    ELSE PostProcessPresent(
            At(mPostProcess[layer].commandBuffers, imageIndex),
            At(mPostProcess[layer].semaphores, imageIndex),
            imageIndex, wait,
            IF layer = "Hook" THEN HookRecordCommands(imageIndex)
                              ELSE IndirectRecordCommands(imageIndex))

\* Whether the process ended in the calls of a Present through a wrap (the
\* wrapped Present was not reached), and whether a pass read past the end of
\* the load passes was recorded.
Died(calls) == calls = <<>> \/ calls[Len(calls)].e # "Present"
ReadPastEnd(calls) ==
    \E k \in 1..Len(calls) : \E j \in 1..Len(calls[k].cmds) :
       calls[k].cmds[j] = CmdBeginRenderPass(Garbage)

(***************************************************************************)
(* The state machine.  Every action draws its inputs from the sets it is   *)
(* given, so that a specification can narrow them.                         *)
(***************************************************************************)
Sizes == 0..MaxSize
\* the values the caller's image index variable has before an acquire: the
\* slots of the largest swapchain and one value that is no slot of any
ImageIndices == 0..MaxImages
Results == {SUCCESS, ERROR_OUT_OF_DATE, ERROR_SUBOPTIMAL, ERROR_API_FAILURE}
WaitLists == {<<>>, <<CallerSemaphore(1)>>}
\* the numbers of the device Create call that can be made to fail (0: none);
\* one CreateTarget call makes at most 4 * imageCount Create calls
FailPoints == 0..(4 * MaxImages)
NoFailure == {0}
\* the create infos without an XR component (pXrComponent is null, or the
\* build is without XR)
Configs ==
    [width : 1..MaxSize, height : 1..MaxSize, imageCount : 1..MaxImages,
     hasDepth : BOOLEAN, headless : BOOLEAN, pXrComponent : {FALSE}]

\* The observer's record of the last operation: its name and arguments, its
\* result, and the number of calls it made on the device, the queue, the
\* command buffers and the backend.
Op(name, imageIndex, width, height, res, events) ==
    [name |-> name, imageIndex |-> imageIndex, width |-> width, height |-> height,
     res |-> res, calls |-> Len(events)]

NewCommandBuffer == [open |-> FALSE, cmds |-> <<>>]

InitSwapchain(configs) ==
    /\ state = "Uninitialized"
    /\ mCreateInfo \in configs
    /\ mXrColorSwapchain = XR_NULL_HANDLE
    /\ mXrDepthSwapchain = XR_NULL_HANDLE
    /\ mDeviceTarget = EmptyTarget
    /\ mIndirectTarget = EmptyTarget
    /\ mIsIndirect = FALSE
    /\ mCommandBuffers = <<>>
    /\ mIsRecording = <<>>
    /\ mPostProcessSemaphores = <<>>
    /\ mCurrentImageIndex = 0
    /\ nextGen = 1
    /\ device = [live |-> {}, misused |-> {}, attached |-> <<>>]
    /\ lastOp = Op("None", 0, 0, 0, SUCCESS, <<>>)
    /\ acquireCount = 0
    /\ resized = FALSE
    /\ presented = FALSE
    /\ scopeOpen = <<>>

\* The observer's record of the last operation made through a wrap: the
\* outermost wrap it was made on, the result of the swapchain's own operation
\* (ppxres), the result DeviceSwapchainWrap returned (wrapped), the result
\* returned to the caller (res), the image index handed to the caller, the
\* need-update flag before the call and the calls the wraps made themselves.
WrapOp(name, layer, imageIndex, ppxres, wrapped, res, needUpdate, events) ==
    [name |-> name, layer |-> layer, imageIndex |-> imageIndex, ppxres |-> ppxres,
     wrapped |-> wrapped, res |-> res, needUpdate |-> needUpdate, events |-> events]

\* the create info of a virtual swapchain that is not made
NoCreateInfo == [width |-> 0, height |-> 0, hasDepth |-> FALSE]

\* No wrap is made yet: the fields have the values of their member
\* initializers.
InitWraps ==
    /\ mNeedUpdate = FALSE
    /\ mAbsorbError = TRUE
    /\ mOnPresent = FALSE
    /\ mVirtualCreateInfo = NoCreateInfo
    /\ mSwapchain = This
    /\ mRenderArea = Rect(0, 0, 0, 0)
    /\ mRenderPass = NoRenderPass
    /\ mPostProcess = [Hook |-> NoPostProcess, Virtual |-> NoPostProcess]
    /\ mVirtual = [colorImages |-> <<>>, depthImages |-> <<>>, renderPass |-> NoRenderPass]
    /\ wrapOp = WrapOp("None", "None", 0, SUCCESS, SUCCESS, SUCCESS, FALSE, <<>>)

\* a swapchain of one of the configurations, no wrap being made
InitWith(configs) == InitSwapchain(configs) /\ InitWraps

\* the outcomes of an operation: when it read out of bounds the process may
\* die or go on with what it read
Outcomes(ub) == IF ub THEN {"crash", "continue"} ELSE {"continue"}

Crash(name, imageIndex) ==
    /\ state' = "Crashed"
    /\ lastOp' = Op(name, imageIndex, 0, 0, ERROR_API_FAILURE, <<>>)
    /\ UNCHANGED <<mCreateInfo, mXrColorSwapchain, mXrDepthSwapchain, mDeviceTarget, mIndirectTarget, mIsIndirect,
                   mCommandBuffers, mIsRecording, mPostProcessSemaphores,
                   mCurrentImageIndex, nextGen, device, acquireCount,
                   resized, presented, scopeOpen>>

\* Swapchain::Create.  With a surface the backend builds the device target
\* from the surface's images (nColorHandles of them, which need not be the
\* number asked for, and nDepthHandles depth images of its own) before the
\* body shown in the source runs, and a failure there fails Create; headless,
\* the indirect target is built by SetIndirectRenderSize, whose result is not
\* looked at.  CreateRenderPasses reads depthImages[i] for every color image
\* i: out of bounds when there are depth images, but fewer than color images.
\* Then the queue's CreateCommandBuffer is called once per slot and the
\* pointer it left is pushed, its result not being looked at: the call
\* number failCb (0: none) fails and leaves a null pointer.  Then one
\* semaphore per slot is created (the device is taken to make it: the result
\* of CreateSemaphore is not looked at either).  With an XR component the
\* backend makes the XR color swapchain and the XR depth swapchain, or leaves
\* either handle null (xrColor, xrDepth: whether it makes them).
CreateOn(failPoints, colorHandles, depthHandles, failCbs) ==
    /\ state = "Uninitialized"
    /\ \E failAt \in failPoints, nColorHandles \in colorHandles, nDepthHandles \in depthHandles,
          failCb \in failCbs,
          xrColor \in (IF mCreateInfo.pXrComponent THEN BOOLEAN ELSE {FALSE}),
          xrDepth \in (IF mCreateInfo.pXrComponent THEN BOOLEAN ELSE {FALSE}) :
       \E dev \in {CreateDeviceTarget(mDeviceTarget, nColorHandles, nDepthHandles, nextGen, failAt)} :
       \E ind \in {SetIndirectRenderSize(mCreateInfo.width, mCreateInfo.height, nextGen, failAt)} :
       \E failed \in {~IsHeadless /\ dev.res # SUCCESS} :
       \E n \in {IF IsHeadless \/ failed THEN mCreateInfo.imageCount
                  ELSE Len(dev.target.colorImages)} :
       \E sems \in {AsSeq([k \in 1..n |-> ObjId(nextGen, "semaphore", k - 1)])} :
       \E events \in {(IF IsHeadless THEN ind.events ELSE dev.events)
                       \o (IF failed THEN <<>>
                           ELSE AsSeq([k \in 1..n |->
                                    Event(IF k = failCb THEN "CreateCommandBufferFailed"
                                          ELSE "CreateCommandBuffer",
                                          k - 1, Null, <<>>, <<>>, Null, <<>>)])
                                \o AsSeq([k \in 1..n |-> EvCreate(sems[k])]))} :
       \E outcome \in (IF ~IsHeadless /\ dev.res = DoesNotReturn THEN {"crash"}
                        ELSE Outcomes(~IsHeadless /\ ~failed /\ Len(dev.target.depthImages) > 0
                                /\ Len(dev.target.depthImages) < Len(dev.target.colorImages))) :
          IF outcome = "crash" THEN Crash("Create", 0)
          ELSE
            /\ IsHeadless => (nColorHandles = mCreateInfo.imageCount /\ nDepthHandles = 0)
            /\ failCb <= (IF failed THEN 0 ELSE n)
            /\ failed => (~xrColor /\ ~xrDepth)
            /\ nextGen' = nextGen + 1
            /\ device' = Attach(DeviceAfter(device, events), device.attached,
                                IF IsHeadless THEN ind.target ELSE dev.target)
            /\ lastOp' = Op("Create", 0, 0, 0, IF failed THEN dev.res ELSE SUCCESS, events)
            /\ IF failed
               THEN /\ state' = "CreateFailed"
                    /\ mDeviceTarget' = dev.target
                    /\ UNCHANGED <<mCreateInfo, mXrColorSwapchain, mXrDepthSwapchain,
                                   mIndirectTarget, mIsIndirect,
                                   mCommandBuffers, mIsRecording,
                                   mPostProcessSemaphores, mCurrentImageIndex,
                                   scopeOpen>>
               ELSE /\ state' = "Ready"
                    /\ mCreateInfo' = [mCreateInfo EXCEPT !.imageCount = n]
                    /\ mXrColorSwapchain' = IF xrColor THEN XrSwapchain(nextGen, "xrColor")
                                            ELSE XR_NULL_HANDLE
                    /\ mXrDepthSwapchain' = IF xrDepth THEN XrSwapchain(nextGen, "xrDepth")
                                            ELSE XR_NULL_HANDLE
                    /\ mDeviceTarget' = IF IsHeadless THEN mDeviceTarget ELSE dev.target
                    /\ mIndirectTarget' = IF IsHeadless THEN ind.target ELSE mIndirectTarget
                    /\ mIsIndirect' = IF IsHeadless THEN ind.isIndirect ELSE mIsIndirect
                    /\ mCommandBuffers' = AsSeq([k \in 1..n |->
                                              IF k = failCb THEN NullCommandBuffer
                                              ELSE NewCommandBuffer])
                    /\ mIsRecording' = AsSeq([k \in 1..n |-> FALSE])
                    /\ mPostProcessSemaphores' = sems
                    /\ mCurrentImageIndex' = IF IsHeadless THEN n - 1 ELSE mCurrentImageIndex
                    /\ scopeOpen' = AsSeq([k \in 1..n |-> FALSE])
            /\ UNCHANGED <<acquireCount, resized, presented>>

\* A Create that makes the semaphores before it looks at the queue: the
\* variant against which the early return is shown to have content.
CreateAllocatingFirst ==
    /\ state = "Uninitialized"
    /\ state' = "CreateFailed"
    /\ mPostProcessSemaphores' =
          AsSeq([k \in 1..mCreateInfo.imageCount |-> ObjId(0, "semaphore", k - 1)])
    /\ lastOp' = Op("Create", 0, 0, 0, ERROR_UNEXPECTED_NULL_ARGUMENT, <<>>)
    /\ UNCHANGED <<mCreateInfo, mXrColorSwapchain, mXrDepthSwapchain, mDeviceTarget, mIndirectTarget, mIsIndirect,
                   mCommandBuffers, mIsRecording,
                   mCurrentImageIndex, nextGen, device, acquireCount,
                   resized, presented, scopeOpen>>

\* Swapchain::Create handed a create info whose pQueue is null (in a build
\* whose assertions are compiled out): the early return
CreateWithNullQueue ==
    /\ state = "Uninitialized"
    /\ state' = "CreateFailed"
    /\ lastOp' = Op("Create", 0, 0, 0, ERROR_UNEXPECTED_NULL_ARGUMENT, <<>>)
    /\ UNCHANGED <<mCreateInfo, mXrColorSwapchain, mXrDepthSwapchain, mDeviceTarget, mIndirectTarget, mIsIndirect,
                   mCommandBuffers, mIsRecording, mPostProcessSemaphores,
                   mCurrentImageIndex, nextGen, device, acquireCount,
                   resized, presented, scopeOpen>>

\* Create on a surface that has as many images as were asked for
Create(failPoints, failCbs) ==
    CreateOn(failPoints, {mCreateInfo.imageCount}, {0}, failCbs)

Slots == 0..(mCreateInfo.imageCount - 1)

DoSetIndirectRenderSize(sizes, failPoints, maxGen) ==
    /\ state = "Ready"
    /\ \E width \in sizes, height \in sizes, failAt \in failPoints :
       \E r \in {SetIndirectRenderSize(width, height, nextGen, failAt)} :
            /\ r.created => nextGen <= maxGen
            /\ ~r.created => failAt = 0
            /\ mIsIndirect' = r.isIndirect
            /\ mIndirectTarget' = r.target
            /\ nextGen' = IF r.created THEN nextGen + 1 ELSE nextGen
            /\ device' = Attach(DeviceAfter(device, r.events), device.attached, r.target)
            /\ lastOp' = Op("SetIndirectRenderSize", 0, width, height, r.res, r.events)
    /\ resized' = TRUE
    /\ UNCHANGED <<state, mCreateInfo, mXrColorSwapchain, mXrDepthSwapchain, mDeviceTarget, mCommandBuffers, mIsRecording,
                   mPostProcessSemaphores, mCurrentImageIndex, acquireCount,
                   presented, scopeOpen>>

UICount(cb) == Len(SelectSeq(cb.cmds, LAMBDA c: c.op = "Callback"))

DoRecordPreamble ==
    /\ state = "Ready"
    /\ \E imageIndex \in Slots :
       \E r \in {RecordPreamble(mCommandBuffers, mIsRecording, imageIndex)} :
            \E outcome \in (IF NullDereferenced(r.cbs) THEN {"crash"}
                             ELSE Outcomes(r.ub)) :
              IF outcome = "crash" THEN Crash("RecordPreamble", imageIndex)
              ELSE /\ mCommandBuffers' = r.cbs
                   /\ mIsRecording' = r.rec
                   /\ scopeOpen' = [scopeOpen EXCEPT ![imageIndex + 1] = TRUE]
                   /\ lastOp' = Op("RecordPreamble", imageIndex, 0, 0, SUCCESS, r.events)
                   /\ UNCHANGED <<state, mCreateInfo, mXrColorSwapchain, mXrDepthSwapchain, mDeviceTarget, mIndirectTarget,
                                  mIsIndirect, mPostProcessSemaphores,
                                  mCurrentImageIndex, nextGen, device,
                                  acquireCount, resized, presented>>

\* RecordUI is not supported on a headless swapchain (asserted).
DoRecordUI ==
    /\ state = "Ready"
    /\ ~IsHeadless
    /\ \E imageIndex \in Slots :
       \E r \in {RecordUI(mCommandBuffers, mIsRecording, imageIndex)} :
            /\ UICount(r.cbs[mCurrentImageIndex + 1]) <= MaxUI
            /\ \E outcome \in (IF NullDereferenced(r.cbs) THEN {"crash"}
                             ELSE Outcomes(r.ub)) :
                 IF outcome = "crash" THEN Crash("RecordUI", imageIndex)
                 ELSE /\ mCommandBuffers' = r.cbs
                      /\ mIsRecording' = r.rec
                      /\ scopeOpen' = [scopeOpen EXCEPT ![imageIndex + 1] = TRUE]
                      /\ lastOp' = Op("RecordUI", imageIndex, 0, 0, SUCCESS, r.events)
                      /\ UNCHANGED <<state, mCreateInfo, mXrColorSwapchain, mXrDepthSwapchain, mDeviceTarget, mIndirectTarget,
                                     mIsIndirect, mPostProcessSemaphores,
                                     mCurrentImageIndex, nextGen, device,
                                     acquireCount, resized, presented>>

\* Present(imageIndex, wait) on a swapchain that is ready
PresentAt(imageIndex, wait, results) ==
         IF IsHeadless
         THEN \E r \in {PresentHeadless(mCommandBuffers, imageIndex, wait)} :
                 IF NullDereferenced(r.cbs) THEN Crash("Present", imageIndex)
                 ELSE
                 /\ mCommandBuffers' = r.cbs
                 /\ lastOp' = Op("Present", imageIndex, 0, 0, r.res, r.events)
                 /\ scopeOpen' = [scopeOpen EXCEPT ![imageIndex + 1] = FALSE]
                 /\ presented' = TRUE
                 /\ UNCHANGED <<state, mCreateInfo, mXrColorSwapchain, mXrDepthSwapchain, mDeviceTarget, mIndirectTarget,
                                mIsIndirect, mIsRecording, mPostProcessSemaphores,
                                mCurrentImageIndex, nextGen, device,
                                acquireCount, resized>>
         ELSE \E result \in results :
              \E r \in {Present(mCommandBuffers, mIsRecording, imageIndex, wait, result)} :
                 \E outcome \in (IF NullDereferenced(r.cbs) THEN {"crash"}
                             ELSE Outcomes(r.ub)) :
                   IF outcome = "crash" THEN Crash("Present", imageIndex)
                   ELSE /\ mCommandBuffers' = r.cbs
                        /\ mIsRecording' = r.rec
                        /\ presented' = TRUE
                        /\ scopeOpen' = [scopeOpen EXCEPT ![imageIndex + 1] = FALSE]
                        /\ lastOp' = Op("Present", imageIndex, 0, 0, r.res, r.events)
                        /\ UNCHANGED <<state, mCreateInfo, mXrColorSwapchain, mXrDepthSwapchain, mDeviceTarget, mIndirectTarget,
                                       mIsIndirect, mPostProcessSemaphores,
                                       mCurrentImageIndex, nextGen, device,
                                       acquireCount, resized>>

DoPresent(waits, results) ==
    /\ state = "Ready"
    /\ \E imageIndex \in Slots, wait \in waits : PresentAt(imageIndex, wait, results)

\* AcquireNextImage.  Headless: the round-robin of AcquireNextImageHeadless; a
\* remainder by zero (no indirect color image) ends the process, and so does
\* a call through the null pointer of a slot without command buffer.  With a
\* surface: the backend's acquire, which hands out any slot and records it as
\* the current one, or fails and leaves the caller's image index variable as
\* it was (imageIndex).  A swapchain made with an XR component takes the XR
\* path (DoXrAcquireNextImage).
DoAcquireNextImage(results, imageIndices) ==
    /\ state = "Ready"
    /\ ~mCreateInfo.pXrComponent
    /\ IF IsHeadless
       THEN /\ acquireCount < MaxAcquire
            /\ IF Len(mIndirectTarget.colorImages) = 0
               THEN /\ Crash("AcquireNextImage", 0)
               ELSE \E r \in {AcquireNextImageHeadless(mCommandBuffers, CallerSemaphore(1), CallerFence)} :
                       IF NullDereferenced(r.cbs) THEN Crash("AcquireNextImage", 0)
                       ELSE
                       /\ mCommandBuffers' = r.cbs
                       /\ mCurrentImageIndex' = r.index
                       /\ acquireCount' = acquireCount + 1
                       /\ lastOp' = Op("AcquireNextImage", r.index, 0, 0, r.res, r.events)
                       /\ UNCHANGED <<state, mCreateInfo, mXrColorSwapchain, mXrDepthSwapchain, mDeviceTarget, mIndirectTarget,
                                      mIsIndirect, mIsRecording, mPostProcessSemaphores,
                                      nextGen, device, resized, presented, scopeOpen>>
       ELSE \E result \in results, index \in Slots, imageIndex \in imageIndices :
              \E ok \in {result \in {SUCCESS, ERROR_SUBOPTIMAL}} :
              \E r \in {AcquireNextImage(result, index, imageIndex)} :
                 /\ mCurrentImageIndex' = IF ok THEN r.index ELSE mCurrentImageIndex
                 /\ lastOp' = Op("AcquireNextImage", r.index, 0, 0, r.res, r.events)
                 /\ UNCHANGED <<state, mCreateInfo, mXrColorSwapchain, mXrDepthSwapchain, mDeviceTarget, mIndirectTarget,
                                mIsIndirect, mCommandBuffers, mIsRecording,
                                mPostProcessSemaphores, nextGen, device,
                                acquireCount, resized, presented, scopeOpen>>

\* PPX_ASSERT_MSG(condition, message) on a condition the code tests nowhere
\* else: execution goes on when the condition holds; when it does not, the
\* process ends there (the assertion is fatal, it is no result code and
\* nothing recovers from it).  Failure paths that assert false and then
\* return a result code are modelled by that return.
PPX_ASSERT_MSG(condition) == IF condition THEN {"continue"} ELSE {"crash"}

\* AcquireNextImage on a swapchain made with an XR component, the XR swapchain
\* handles being those Create left.  The process ends at the first assertion
\* that does not hold: before any call when the color handle is null or a
\* semaphore or a fence is given, after the calls on both XR swapchains when
\* the indices they handed out differ.  The observer keeps the indices the
\* two XR swapchains handed out and the caller's semaphore and fence.
DoXrAcquireNextImage(semaphores, fences) ==
    /\ state = "Ready"
    /\ mCreateInfo.pXrComponent
    /\ \E colorIndex \in Slots, depthIndex \in Slots, semaphore \in semaphores,
          fence \in fences :
       \E hasColorSwapchain \in {mXrColorSwapchain # XR_NULL_HANDLE} :
       \E hasDepthSwapchain \in {mXrDepthSwapchain # XR_NULL_HANDLE} :
       \E r \in {XrAcquireNextImage(colorIndex, depthIndex, hasColorSwapchain,
                                     hasDepthSwapchain, semaphore, fence)} :
       \E outcome \in PPX_ASSERT_MSG(~r.asserted) :
          /\ ~(r.entered /\ hasDepthSwapchain) => depthIndex = colorIndex
          /\ state' = IF outcome = "crash" THEN "Crashed" ELSE state
          /\ lastOp' = [name |-> "AcquireNextImage",
                        imageIndex |-> IF outcome = "crash" THEN 0 ELSE r.index,
                        width |-> 0, height |-> 0,
                        res |-> IF outcome = "crash" THEN ERROR_API_FAILURE ELSE r.res,
                        calls |-> IF r.entered THEN Len(r.events) ELSE 0,
                        colorIndex |-> colorIndex, depthIndex |-> depthIndex,
                        hasColorSwapchain |-> hasColorSwapchain,
                        hasDepthSwapchain |-> hasDepthSwapchain,
                        semaphore |-> semaphore, fence |-> fence]
          /\ UNCHANGED <<mCreateInfo, mXrColorSwapchain, mXrDepthSwapchain,
                         mDeviceTarget, mIndirectTarget,
                         mIsIndirect, mCommandBuffers, mIsRecording,
                         mPostProcessSemaphores, mCurrentImageIndex, nextGen,
                         device, acquireCount, resized, presented, scopeOpen>>

\* Swapchain::Destroy of a swapchain that was created
DoDestroy ==
    /\ state = "Ready"
    /\ state' = "Destroyed"
    /\ mIndirectTarget' = DestroyTarget(mIndirectTarget).target
    /\ mDeviceTarget' = DestroyTarget(mDeviceTarget).target
    /\ mPostProcessSemaphores' = <<>>
    /\ mCommandBuffers' = <<>>
    /\ mIsRecording' = <<>>
    /\ scopeOpen' = <<>>
    /\ device' = Attach(DeviceAfter(device, Destroy), device.attached, EmptyTarget)
    /\ lastOp' = Op("Destroy", 0, 0, 0, SUCCESS, Destroy)
    /\ UNCHANGED <<mCreateInfo, mXrColorSwapchain, mXrDepthSwapchain, mIsIndirect, mCurrentImageIndex, nextGen,
                   acquireCount, resized, presented>>

\* An operation made through the wraps, on the outermost of them (layer):
\* "Device" is DeviceSwapchainWrap on the swapchain, "Hook" the present hook
\* on DeviceSwapchainWrap, "Virtual" the virtual swapchain on
\* DeviceSwapchainWrap.  The swapchain's own operation runs, then each wrap
\* handles the result of the one below it.
AcquireThrough(layer, results, imageIndices) ==
    /\ mRenderPass.device
    /\ mSwapchain = This
    /\ layer # "Device" => mPostProcess[layer].queue
    /\ DoAcquireNextImage(results, imageIndices)
    /\ IF state' = "Crashed"
       THEN /\ mNeedUpdate' = mNeedUpdate
            /\ wrapOp' = WrapOp("AcquireNextImage", layer, 0, ERROR_API_FAILURE,
                                ERROR_API_FAILURE, ERROR_API_FAILURE, mNeedUpdate, <<>>)
       ELSE \E d \in {DeviceWrapAcquireNextImage(lastOp'.res, lastOp'.imageIndex,
                                                 CallerSemaphore(1), CallerFence)} :
            \E r \in {IF layer = "Virtual"
                      THEN IndirectAcquireNextImage(d.res, d.index, CallerSemaphore(1), CallerFence)
                      ELSE Wrapped(d.res, d.needUpdate, d.index, <<>>)} :
               /\ mNeedUpdate' = d.needUpdate
               /\ wrapOp' = WrapOp("AcquireNextImage", layer, r.index, lastOp'.res,
                                   d.res, r.res, mNeedUpdate, d.events \o r.events)
    /\ UNCHANGED <<mAbsorbError, mOnPresent, mVirtualCreateInfo, mSwapchain, mRenderArea,
                   mRenderPass, mPostProcess, mVirtual>>

\* the variables of the swapchain under the wraps that no operation of a wrap
\* writes except through the swapchain's own operations
coreVars == <<state, mCreateInfo, mXrColorSwapchain, mXrDepthSwapchain,
              mDeviceTarget, mIndirectTarget, mIsIndirect,
              mCommandBuffers, mIsRecording, mPostProcessSemaphores,
              mCurrentImageIndex, lastOp, acquireCount, resized, presented,
              scopeOpen>>

\* the process ends in operation `name` of a wrap, after the calls `calls`
WrapCrash(name, layer, imageIndex, calls) ==
    /\ state' = "Crashed"
    /\ wrapOp' = WrapOp(name, layer, imageIndex, ERROR_API_FAILURE, ERROR_API_FAILURE,
                        ERROR_API_FAILURE, mNeedUpdate, calls)
    /\ UNCHANGED <<mCreateInfo, mXrColorSwapchain, mXrDepthSwapchain,
                   mDeviceTarget, mIndirectTarget, mIsIndirect,
                   mCommandBuffers, mIsRecording, mPostProcessSemaphores,
                   mCurrentImageIndex, lastOp, acquireCount, resized, presented,
                   scopeOpen, nextGen, device, mNeedUpdate>>

\* Present through a wrap.  WithPostProcess<T>::Present calls Begin through
\* the command buffer pointer of the image, which is null when its
\* CreateCommandBuffer failed; RecordCommands calls GetRenderArea through the
\* render pass it was handed, which is null when the index is out of range of
\* the clear passes of the cache, and whatever was read when the load passes
\* are fewer than the clear passes.  The process may also end in the Present
\* of the swapchain under the wraps.
PresentThrough(layer, waits, results) ==
    /\ state = "Ready"
    /\ mRenderPass.device
    /\ mSwapchain = This
    /\ layer # "Device" => mPostProcess[layer].queue
    /\ \E imageIndex \in Slots, wait \in waits :
       \E calls \in {PresentCalls(layer, imageIndex, wait)} :
       \E outcome \in (IF Died(calls) THEN {"crash"} ELSE Outcomes(ReadPastEnd(calls))) :
          IF outcome = "crash" THEN WrapCrash("Present", layer, imageIndex, calls)
          ELSE
          /\ PresentAt(imageIndex, calls[Len(calls)].wait, results)
          /\ IF state' = "Crashed"
             THEN /\ mNeedUpdate' = mNeedUpdate
                  /\ wrapOp' = WrapOp("Present", layer, imageIndex, ERROR_API_FAILURE,
                                      ERROR_API_FAILURE, ERROR_API_FAILURE, mNeedUpdate,
                                      calls)
             ELSE \E d \in {DeviceWrapPresent(lastOp'.res)} :
                  \E r \in {IF layer = "Virtual" THEN IndirectPresent(d.res) ELSE d} :
                     /\ mNeedUpdate' = d.needUpdate
                     /\ wrapOp' = WrapOp("Present", layer, imageIndex, lastOp'.res,
                                         d.res, r.res, mNeedUpdate, calls)
    /\ UNCHANGED <<mAbsorbError, mOnPresent, mVirtualCreateInfo, mSwapchain, mRenderArea,
                   mRenderPass, mPostProcess, mVirtual>>

DoWrapAcquireNextImage(results, imageIndices) ==
    AcquireThrough("Device", results, imageIndices)
DoWrapPresent(waits, results) == PresentThrough("Device", waits, results)
DoHookPresent(waits, results) == PresentThrough("Hook", waits, results)
DoVirtualAcquireNextImage(results, imageIndices) ==
    AcquireThrough("Virtual", results, imageIndices)
DoVirtualPresent(waits, results) == PresentThrough("Virtual", waits, results)

\* WithRenderPass<DeviceSwapchainWrapImpl>::OnUpdate as the last step of
\* operation `name` of DeviceSwapchainWrap, after the swapchain it wraps made
\* the calls `events` and returned ppxres; deviceTarget and target are that
\* swapchain's device target and GetTarget() then.  OnUpdate is reached when
\* `runs`; needUpdate is the flag the operation leaves.
OnUpdate(name, ppxres, runs, deviceTarget, target, events, needUpdate, failAt) ==
    \E u \in {UpdateRenderPass(mRenderPass, target, mCreateInfo.hasDepth,
                                mCreateInfo.imageCount, nextGen, failAt)} :
    \E res \in {IF runs THEN u.res ELSE ppxres} :
    \E made \in {IF runs THEN u.events ELSE <<>>} :
       /\ mRenderPass' = IF runs THEN u.cache ELSE mRenderPass
       /\ mNeedUpdate' = needUpdate
       /\ device' = Attach(DeviceAfter(device, events \o made), device.attached, deviceTarget)
       /\ nextGen' = IF runs THEN nextGen + 1 ELSE nextGen
       /\ wrapOp' = WrapOp(name, "Device", 0, ppxres, res, res, mNeedUpdate, made)
       /\ UNCHANGED <<mOnPresent, mVirtualCreateInfo, mRenderArea, mPostProcess, mVirtual>>

\* DeviceSwapchainWrap::Create(swapchain, absorbError) on a swapchain that is
\* ready; the result of OnUpdate is not looked at.
DoWrapCreate(absorbErrors, failPoints, maxGen) ==
    /\ state = "Ready"
    /\ ~mRenderPass.device
    /\ nextGen <= maxGen
    /\ mAbsorbError' \in absorbErrors
    /\ mSwapchain' = This
    /\ \E failAt \in failPoints :
          OnUpdate("Create", SUCCESS, TRUE, mDeviceTarget, GetTarget, <<>>, FALSE, failAt)
    /\ UNCHANGED <<state, mCreateInfo, mXrColorSwapchain, mXrDepthSwapchain,
                   mDeviceTarget, mIndirectTarget, mIsIndirect,
                   mCommandBuffers, mIsRecording, mPostProcessSemaphores,
                   mCurrentImageIndex, lastOp, acquireCount, resized, presented,
                   scopeOpen>>

\* DeviceSwapchainWrapImpl::ResizeSwapchain: mSwapchain's Resize, and when it
\* returned SUCCESS the flag is cleared and OnUpdate runs; any other result is
\* returned as it is.  resizeFailAt: the failing Create call of the rebuild
\* in Resize; failAt: the failing CreateRenderPass call of OnUpdate.
DoResizeSwapchain(sizes, results, resizeFailPoints, failPoints, maxGen) ==
    /\ state = "Ready"
    /\ mRenderPass.device
    /\ mSwapchain = This
    /\ ~IsHeadless
    /\ nextGen <= maxGen
    /\ \E width \in sizes, height \in sizes, result \in results, torn \in BOOLEAN,
          resizeFailAt \in resizeFailPoints, failAt \in failPoints :
       \E s \in {Resize(width, height, result, torn, nextGen, resizeFailAt)} :
          /\ result # SUCCESS => resizeFailAt = 0
          /\ result = SUCCESS => ~torn
          /\ resizeFailAt <= CreateCalls(s.events)
          /\ s.res # SUCCESS => failAt = 0
          /\ OnUpdate("ResizeSwapchain", s.res, s.res = SUCCESS, s.target,
                      IF mIsIndirect THEN mIndirectTarget ELSE s.target, s.events,
                      IF s.res = SUCCESS THEN FALSE ELSE mNeedUpdate, failAt)
          /\ mDeviceTarget' = s.target
          /\ mCreateInfo' = IF s.res = SUCCESS
                            THEN [mCreateInfo EXCEPT !.width = width, !.height = height]
                            ELSE mCreateInfo
          /\ lastOp' = Op("Resize", 0, width, height, s.res, s.events)
    /\ UNCHANGED <<state, mXrColorSwapchain, mXrDepthSwapchain, mIndirectTarget,
                   mIsIndirect, mCommandBuffers, mIsRecording,
                   mPostProcessSemaphores, mCurrentImageIndex, acquireCount, resized,
                   presented, scopeOpen, mAbsorbError, mSwapchain>>

\* the fields of the swapchain of the core variables
ThisSwapchain ==
    [state |-> state, mCreateInfo |-> mCreateInfo,
     mXrColorSwapchain |-> mXrColorSwapchain, mXrDepthSwapchain |-> mXrDepthSwapchain,
     mDeviceTarget |-> mDeviceTarget, mIndirectTarget |-> mIndirectTarget,
     mIsIndirect |-> mIsIndirect, mCommandBuffers |-> mCommandBuffers,
     mIsRecording |-> mIsRecording, mPostProcessSemaphores |-> mPostProcessSemaphores,
     mCurrentImageIndex |-> mCurrentImageIndex]

\* The construction of another swapchain, with one of the create infos, on
\* the device of the swapchain DeviceSwapchainWrap is on: from here on the core
\* variables are those of the new swapchain, on which Create and the other
\* operations of a swapchain are called, and mSwapchain holds the swapchain
\* the wrap points at until the new one is handed to ReplaceSwapchain.
DoNewSwapchain(configs, maxGen) ==
    /\ state = "Ready"
    /\ mRenderPass.device
    /\ mSwapchain = This
    /\ nextGen + 1 <= maxGen
    /\ mSwapchain' = <<ThisSwapchain>>
    /\ state' = "Uninitialized"
    /\ mCreateInfo' \in configs
    /\ mXrColorSwapchain' = XR_NULL_HANDLE
    /\ mXrDepthSwapchain' = XR_NULL_HANDLE
    /\ mDeviceTarget' = EmptyTarget
    /\ mIndirectTarget' = EmptyTarget
    /\ mIsIndirect' = FALSE
    /\ mCommandBuffers' = <<>>
    /\ mIsRecording' = <<>>
    /\ mPostProcessSemaphores' = <<>>
    /\ mCurrentImageIndex' = 0
    /\ lastOp' = Op("None", 0, 0, 0, SUCCESS, <<>>)
    /\ acquireCount' = 0
    /\ resized' = FALSE
    /\ presented' = FALSE
    /\ scopeOpen' = <<>>
    /\ UNCHANGED <<nextGen, device, mNeedUpdate, mAbsorbError, mOnPresent,
                   mVirtualCreateInfo, mRenderArea, mRenderPass, mPostProcess,
                   mVirtual, wrapOp>>

\* DeviceSwapchainWrapImpl::ReplaceSwapchain(swapchain), handed the swapchain
\* of the core variables, which was created: the pointer is set, the flag
\* cleared and OnUpdate runs on the swapchain handed over.  Nothing is done
\* to the swapchain wrapped before.
DoReplaceSwapchain(failPoints, maxGen) ==
    /\ state = "Ready"
    /\ mRenderPass.device
    /\ nextGen <= maxGen
    /\ mSwapchain' = This
    /\ \E failAt \in failPoints :
          OnUpdate("ReplaceSwapchain", SUCCESS, TRUE, mDeviceTarget, GetTarget, <<>>,
                   FALSE, failAt)
    /\ UNCHANGED <<coreVars, mAbsorbError>>

\* DeviceSwapchainWrapImpl::SetNeedUpdate
DoSetNeedUpdate ==
    /\ state = "Ready"
    /\ mRenderPass.device
    /\ mNeedUpdate' = TRUE
    /\ wrapOp' = WrapOp("SetNeedUpdate", "Device", 0, SUCCESS, SUCCESS, SUCCESS,
                        mNeedUpdate, <<>>)
    /\ UNCHANGED <<state, mCreateInfo, mXrColorSwapchain, mXrDepthSwapchain, mDeviceTarget, mIndirectTarget, mIsIndirect,
                   mCommandBuffers, mIsRecording, mPostProcessSemaphores,
                   mCurrentImageIndex, nextGen, device, lastOp, acquireCount,
                   resized, presented, scopeOpen,
                   mAbsorbError, mOnPresent, mVirtualCreateInfo, mSwapchain, mRenderArea,
                   mRenderPass, mPostProcess, mVirtual>>

\* GetRenderPass(imageIndex, loadOp) of DeviceSwapchainWrap: the read past
\* the end of the load passes may end the process.
DoWrapGetRenderPass ==
    /\ state = "Ready"
    /\ mSwapchain = This
    /\ mRenderPass.device
    /\ \E imageIndex \in Slots, loadOp \in {"CLEAR", "LOAD"} :
       \E rp \in {WrapGetRenderPass(imageIndex, loadOp)} :
       \E outcome \in Outcomes(rp = Garbage) :
          IF outcome = "crash" THEN WrapCrash("GetRenderPass", "Device", imageIndex, <<>>)
          ELSE /\ wrapOp' = [name |-> "GetRenderPass", layer |-> "Device",
                             imageIndex |-> imageIndex, ppxres |-> SUCCESS,
                             wrapped |-> SUCCESS, res |-> SUCCESS,
                             needUpdate |-> mNeedUpdate, events |-> <<>>,
                             loadOp |-> loadOp, out |-> rp]
               /\ UNCHANGED <<coreVars, nextGen, device, mNeedUpdate>>
    /\ UNCHANGED <<mAbsorbError, mOnPresent, mVirtualCreateInfo, mSwapchain, mRenderArea, mRenderPass,
                   mPostProcess, mVirtual>>

\* Swapchain::PresentHook(swapchain, f) on DeviceSwapchainWrap, f being empty
\* or not
DoPresentHook(onPresents, failCbs, maxGen) ==
    /\ state = "Ready"
    /\ mSwapchain = This
    /\ mRenderPass.device
    /\ ~mPostProcess.Hook.queue
    /\ nextGen <= maxGen
    /\ \E failCb \in failCbs :
       \E r \in {InitPostProcess("Hook", GetImageCount, nextGen, failCb)} :
          /\ failCb <= GetImageCount
          /\ mPostProcess' = [mPostProcess EXCEPT !.Hook = r.pp]
          /\ device' = Attach(DeviceAfter(device, r.events), device.attached, mDeviceTarget)
          /\ wrapOp' = WrapOp("PresentHook", "Hook", 0, SUCCESS, SUCCESS, SUCCESS,
                              mNeedUpdate, r.events)
    /\ mOnPresent' \in onPresents
    /\ nextGen' = nextGen + 1
    /\ UNCHANGED <<coreVars, mNeedUpdate, mAbsorbError, mVirtualCreateInfo, mSwapchain,
                   mRenderArea, mRenderPass, mVirtual>>

\* VirtualSwapchain::Create(realSwapchain, createInfo) on DeviceSwapchainWrap,
\* with a create info of the image count of the swapchain it is put on
DoVirtualCreate(sizes, depths, failPoints, failCbs, maxGen) ==
    /\ state = "Ready"
    /\ mSwapchain = This
    /\ mRenderPass.device
    /\ ~mPostProcess.Virtual.queue
    /\ nextGen + 1 <= maxGen
    /\ \E size \in sizes, hasDepth \in depths, failAt \in failPoints, failCb \in failCbs :
       \E r \in {VirtualSwapchainCreate(GetImageCount, hasDepth, nextGen, failAt, failCb)} :
          /\ failCb <= GetImageCount
          /\ failAt <= CreateCalls(r.events)
          /\ mVirtualCreateInfo' = [width |-> size, height |-> size, hasDepth |-> hasDepth]
          /\ mVirtual' = r.virtual
          /\ mPostProcess' = [mPostProcess EXCEPT !.Virtual = r.pp]
          /\ device' = Attach(DeviceAfter(device, r.events), device.attached, mDeviceTarget)
          /\ wrapOp' = WrapOp("VirtualCreate", "Virtual", 0, SUCCESS, SUCCESS, SUCCESS,
                              mNeedUpdate, r.events)
    /\ mRenderArea' = Rect(0, 0, 0, 0)
    /\ nextGen' = nextGen + 2
    /\ UNCHANGED <<coreVars, mNeedUpdate, mAbsorbError, mOnPresent, mRenderPass, mSwapchain>>

\* The deletion of a wrap.  ~RenderPassImpl calls Cleanup, which destroys the
\* passes of the cache; nothing else a wrap made is destroyed (no destructor
\* is written for the command buffers and semaphores of InitPostProcess or
\* for the images of InitVirtualSwapchain).  DeviceSwapchainWrap is deleted
\* after the wraps that were put on it.
DoWrapDelete ==
    /\ state = "Ready"
    /\ mSwapchain = This
    /\ mRenderPass.device
    /\ ~mPostProcess.Hook.queue
    /\ ~mPostProcess.Virtual.queue
    /\ \E events \in {DestroyEvents(mRenderPass.clearRenderPasses
                                      \o mRenderPass.loadRenderPasses)} :
          /\ device' = Attach(DeviceAfter(device, events), device.attached, mDeviceTarget)
          /\ wrapOp' = WrapOp("Delete", "Device", 0, SUCCESS, SUCCESS, SUCCESS,
                              mNeedUpdate, events)
    /\ mRenderPass' = NoRenderPass
    /\ mNeedUpdate' = FALSE
    /\ mAbsorbError' = TRUE
    /\ UNCHANGED <<coreVars, nextGen, mOnPresent, mVirtualCreateInfo, mSwapchain,
                   mRenderArea, mPostProcess, mVirtual>>

DoHookDelete ==
    /\ state = "Ready"
    /\ mSwapchain = This
    /\ mPostProcess.Hook.queue
    /\ mPostProcess' = [mPostProcess EXCEPT !.Hook = NoPostProcess]
    /\ mOnPresent' = FALSE
    /\ wrapOp' = WrapOp("Delete", "Hook", 0, SUCCESS, SUCCESS, SUCCESS, mNeedUpdate, <<>>)
    /\ UNCHANGED <<coreVars, nextGen, device, mNeedUpdate, mAbsorbError,
                   mVirtualCreateInfo, mSwapchain, mRenderArea, mRenderPass, mVirtual>>

DoVirtualDelete ==
    /\ state = "Ready"
    /\ mSwapchain = This
    /\ mPostProcess.Virtual.queue
    /\ \E events \in {DestroyEvents(mVirtual.renderPass.clearRenderPasses
                                      \o mVirtual.renderPass.loadRenderPasses)} :
          /\ device' = Attach(DeviceAfter(device, events), device.attached, mDeviceTarget)
          /\ wrapOp' = WrapOp("Delete", "Virtual", 0, SUCCESS, SUCCESS, SUCCESS,
                              mNeedUpdate, events)
    /\ mPostProcess' = [mPostProcess EXCEPT !.Virtual = NoPostProcess]
    /\ mVirtual' = [colorImages |-> <<>>, depthImages |-> <<>>, renderPass |-> NoRenderPass]
    /\ mVirtualCreateInfo' = NoCreateInfo
    /\ mRenderArea' = Rect(0, 0, 0, 0)
    /\ UNCHANGED <<coreVars, nextGen, mNeedUpdate, mAbsorbError, mOnPresent, mRenderPass,
                   mSwapchain>>

Init == InitWith(Configs)

Next ==
    \/ Create(FailPoints, 0..MaxImages) /\ UNCHANGED wrapVars
    \/ DoSetIndirectRenderSize(Sizes, FailPoints, MaxGen) /\ UNCHANGED wrapVars
    \/ DoRecordPreamble /\ UNCHANGED wrapVars
    \/ DoRecordUI /\ UNCHANGED wrapVars
    \/ DoPresent(WaitLists, Results) /\ UNCHANGED wrapVars
    \/ DoAcquireNextImage(Results, ImageIndices) /\ UNCHANGED wrapVars

\* The whole machine: every configuration, every operation, every input.
Spec == Init /\ [][Next]_vars

(***************************************************************************)
(* The machine is checked in three parts, each a restriction of Spec to    *)
(* the operations and inputs a group of properties is about.  The targets  *)
(* are written only by Create and SetIndirectRenderSize; the command       *)
(* buffers and recording flags only by the frame operations.               *)
(***************************************************************************)

\* Target lifetimes: every configuration, every size, every failure point.
NextTarget ==
    \/ Create(FailPoints, 0..MaxImages) /\ UNCHANGED wrapVars
    \/ DoSetIndirectRenderSize(Sizes, FailPoints, MaxGen) /\ UNCHANGED wrapVars
SpecTarget == Init /\ [][NextTarget]_vars

\* Headless swapchains: every operation a headless swapchain supports.
HeadlessConfigs == {c \in Configs : c.headless /\ c.width = MaxSize /\ c.height = MaxSize}
NextHeadless ==
    \/ Create(FailPoints, 0..MaxImages) /\ UNCHANGED wrapVars
    \/ DoSetIndirectRenderSize(Sizes, FailPoints, MaxGen) /\ UNCHANGED wrapVars
    \/ DoRecordPreamble /\ UNCHANGED wrapVars
    \/ DoPresent(WaitLists, Results) /\ UNCHANGED wrapVars
    \/ DoAcquireNextImage(Results, ImageIndices) /\ UNCHANGED wrapVars
SpecHeadless == InitWith(HeadlessConfigs) /\ [][NextHeadless]_vars

\* Frames: indirect rendering switched on (at the configured size) and off,
\* recording, presenting and acquiring on every slot, with a surface and
\* headless.
FrameConfigs ==
    {c \in Configs : ~c.hasDepth /\ c.width = MaxSize /\ c.height = MaxSize}
NextFrames ==
    \/ Create(NoFailure, NoFailure) /\ UNCHANGED wrapVars
    \/ DoSetIndirectRenderSize({0, MaxSize}, NoFailure, MaxGen) /\ UNCHANGED wrapVars
    \/ DoRecordPreamble /\ UNCHANGED wrapVars
    \/ DoRecordUI /\ UNCHANGED wrapVars
    \/ DoPresent(WaitLists, {SUCCESS}) /\ UNCHANGED wrapVars
    \/ DoAcquireNextImage({SUCCESS}, ImageIndices) /\ UNCHANGED wrapVars
SpecFrames == InitWith(FrameConfigs) /\ [][NextFrames]_vars

\* The preamble copy: one swapchain with a surface, CopySize wide and high,
\* every requested indirect size up to it, recording and presenting.
CopyConfigs ==
    {[width |-> CopySize, height |-> CopySize, imageCount |-> 1,
      hasDepth |-> FALSE, headless |-> FALSE, pXrComponent |-> FALSE]}
NextCopy ==
    \/ Create(NoFailure, NoFailure) /\ UNCHANGED wrapVars
    \/ DoSetIndirectRenderSize(0..CopySize, NoFailure, MaxGen) /\ UNCHANGED wrapVars
    \/ DoRecordPreamble /\ UNCHANGED wrapVars
    \/ DoPresent({<<>>}, {SUCCESS}) /\ UNCHANGED wrapVars
SpecCopy == InitWith(CopyConfigs) /\ [][NextCopy]_vars

\* Handles: target lifetimes on surfaces that hand over any number of color
\* images and of depth images.
HandleCounts == 0..MaxImages
NextHandles ==
    \/ CreateOn(FailPoints, HandleCounts \ {0}, HandleCounts, 0..MaxImages) /\ UNCHANGED wrapVars
    \/ DoSetIndirectRenderSize(Sizes, FailPoints, MaxGen) /\ UNCHANGED wrapVars
SpecHandles == Init /\ [][NextHandles]_vars

\* The surface: swapchains with a surface whose backend returns every result,
\* with and without indirect rendering, with and without a recording pending.
SurfaceConfigs == {c \in FrameConfigs : ~c.headless}
NextSurface ==
    \/ Create(NoFailure, NoFailure) /\ UNCHANGED wrapVars
    \/ DoSetIndirectRenderSize({0, MaxSize}, NoFailure, MaxGen) /\ UNCHANGED wrapVars
    \/ DoRecordPreamble /\ UNCHANGED wrapVars
    \/ DoPresent({<<>>}, Results) /\ UNCHANGED wrapVars
    \/ DoAcquireNextImage(Results, ImageIndices) /\ UNCHANGED wrapVars
SpecSurface == InitWith(SurfaceConfigs) /\ [][NextSurface]_vars

\* The wraps: a swapchain with a surface, used through its wraps only, every
\* result of the backend, with and without absorption of transient results.
\* DeviceSwapchainWrap is made on the swapchain, with every render pass
\* creation failing or not, and at most one of the present hook and the
\* virtual swapchain is on it at a time.  One creation call fails per chain of
\* wraps: a command buffer, an image or a render pass of the outer wrap fails
\* only on a DeviceSwapchainWrap whose cache is complete.  The wraps are
\* deleted outermost first and made again while generations last.
WrapConfigs ==
    {c \in Configs : ~c.headless /\ ~c.hasDepth /\ c.width = MaxSize /\ c.height = MaxSize}
WrapMaxGen == MaxGen + 1
\* whether every render pass of the cache of DeviceSwapchainWrap was made
CacheComplete ==
    /\ Len(mRenderPass.clearRenderPasses) = GetImageCount
    /\ Len(mRenderPass.loadRenderPasses) = GetImageCount
UpdateFailPoints == 0..(2 * MaxImages)
VirtualFailPoints == 0..(6 * MaxImages)
NextWrap ==
    \/ Create(NoFailure, NoFailure) /\ UNCHANGED wrapVars
    \/ DoWrapCreate(BOOLEAN, UpdateFailPoints, MaxGen)
    \/ /\ ~mPostProcess.Virtual.queue
       /\ DoPresentHook(BOOLEAN, IF CacheComplete THEN 0..MaxImages ELSE NoFailure,
                        MaxGen)
    \/ /\ ~mPostProcess.Hook.queue
       /\ DoVirtualCreate({MaxSize}, BOOLEAN,
                          IF CacheComplete THEN VirtualFailPoints ELSE NoFailure,
                          NoFailure, WrapMaxGen)
    \/ /\ ~mPostProcess.Hook.queue
       /\ CacheComplete
       /\ DoVirtualCreate({MaxSize}, BOOLEAN, NoFailure, 1..MaxImages, WrapMaxGen)
    \/ DoWrapGetRenderPass
    \/ DoWrapAcquireNextImage(Results, {0, MaxImages})
    \/ DoWrapPresent({<<>>}, Results)
    \/ DoHookPresent(WaitLists, Results)
    \/ DoVirtualAcquireNextImage(Results, {0, MaxImages})
    \/ DoVirtualPresent({<<>>}, Results)
    \/ DoHookDelete
    \/ DoVirtualDelete
    \/ DoWrapDelete
InitWrap == InitWith(WrapConfigs)
SpecWrap == InitWrap /\ [][NextWrap]_vars

\* Teardown: target lifetimes, begun by a Create with or without a queue and
\* ended by Destroy.
NextDestroy ==
    \/ NextTarget
    \/ CreateWithNullQueue /\ UNCHANGED wrapVars
    \/ DoDestroy /\ UNCHANGED wrapVars
\* the create infos with an XR component, of swapchains with a surface
XrConfigs == {[c EXCEPT !.pXrComponent = TRUE] : c \in {x \in Configs : ~x.headless}}
InitDestroy == InitWith(Configs \cup XrConfigs)
SpecDestroy == InitDestroy /\ [][NextDestroy]_vars

\* The life of DeviceSwapchainWrap: made on a swapchain with a surface, with
\* and without depth images; the swapchain resized, the backend succeeding,
\* failing before or after the teardown, or the rebuild failing; another
\* swapchain with a surface constructed, created and handed to
\* ReplaceSwapchain; every render pass creation of OnUpdate failing or not;
\* every result of acquire and present.  The wrap is also made on a headless
\* swapchain of one image, with and without its command buffer, on which an
\* acquire or a present through the wrap ends the process when the command
\* buffer is missing.
UpdateConfigs ==
    {c \in Configs : ~c.headless /\ c.width = MaxSize /\ c.height = MaxSize}
NextUpdate ==
    \/ Create(NoFailure, IF IsHeadless THEN {0, 1} ELSE NoFailure) /\ UNCHANGED wrapVars
    \/ DoWrapCreate(BOOLEAN, UpdateFailPoints, MaxGen + 1)
    \/ DoResizeSwapchain({1}, {SUCCESS, ERROR_API_FAILURE}, {0, 1},
                         UpdateFailPoints, MaxGen + 1)
    \/ ~IsHeadless /\ DoNewSwapchain({c \in UpdateConfigs : c.hasDepth}, MaxGen + 1)
    \/ mSwapchain # This /\ DoReplaceSwapchain(UpdateFailPoints, MaxGen + 1)
    \/ DoSetNeedUpdate
    \/ DoWrapAcquireNextImage(Results, {0})
    \/ DoWrapPresent({<<>>}, Results)
InitUpdate ==
    InitWith(UpdateConfigs \cup {c \in HeadlessConfigs : c.imageCount = 1 /\ ~c.hasDepth})
SpecUpdate == InitUpdate /\ [][NextUpdate]_vars

\* VirtualSwapchain::UpdateRenderArea on a virtual swapchain put on the wrap
DoUpdateRenderArea(areas) ==
    /\ state = "Ready"
    /\ mSwapchain = This
    /\ mRenderPass.device
    /\ mPostProcess.Virtual.queue
    /\ \E renderArea \in areas :
          /\ mRenderArea' = UpdateRenderArea(renderArea)
          /\ wrapOp' = WrapOp("UpdateRenderArea", "Virtual", 0, SUCCESS, SUCCESS, SUCCESS,
                              mNeedUpdate, <<>>)
    /\ UNCHANGED <<state, mCreateInfo, mXrColorSwapchain, mXrDepthSwapchain, mDeviceTarget, mIndirectTarget, mIsIndirect,
                   mCommandBuffers, mIsRecording, mPostProcessSemaphores,
                   mCurrentImageIndex, nextGen, device, lastOp, acquireCount,
                   resized, presented, scopeOpen,
                   mNeedUpdate, mAbsorbError, mOnPresent, mVirtualCreateInfo, mSwapchain,
                   mRenderPass, mPostProcess, mVirtual>>

\* XR: acquires on a swapchain with an XR component, whatever indices the XR
\* swapchains hand out, with and without a color and a depth swapchain,
\* semaphore and fence.
NextXr ==
    \/ Create(NoFailure, NoFailure) /\ UNCHANGED wrapVars
    \/ DoXrAcquireNextImage({Null, CallerSemaphore(1)}, {Null, CallerFence})
          /\ UNCHANGED wrapVars
InitXr == InitWith(XrConfigs)
SpecXr == InitXr /\ [][NextXr]_vars

\* Render areas: a virtual swapchain, MaxSize or AreaSize wide and high, on a
\* wrapped swapchain with a surface of every size; its render area updated
\* with every x and width of RenderAreas and with y and height below zero,
\* zero, small and largest (2^32 - 1), and frames presented through it.
NextArea ==
    \/ Create(NoFailure, NoFailure) /\ UNCHANGED wrapVars
    \/ DoWrapCreate({TRUE}, NoFailure, MaxGen)
    \/ DoVirtualCreate({MaxSize, AreaSize}, {FALSE}, NoFailure, NoFailure, MaxGen + 1)
    \/ DoUpdateRenderArea({r \in RenderAreas :
                              /\ r.y \in {-1, 0, 1}
                              /\ r.height \in {0, 1, 2, -1}})
    \/ DoVirtualPresent({<<>>}, {SUCCESS})
InitArea == InitWith({c \in Configs : ~c.headless /\ ~c.hasDepth /\ c.imageCount = 1})
SpecArea == InitArea /\ [][NextArea]_vars

(***************************************************************************)
(* Properties.  Most are stated on every reachable state for every input   *)
(* of the operation they are about: the operation's result, computed from  *)
(* the state, has the shape the property gives it.                         *)
(***************************************************************************)

\* the objects an event log created, and the number of Destroy calls it made
\* on an object
CreatedBy(events) == {events[k].id : k \in {j \in 1..Len(events) : events[j].e = "Create"}}
DestroyCount(events, id) ==
    Cardinality({k \in 1..Len(events) : events[k].e = "Destroy" /\ events[k].id = id})

\* The result r of a failed CreateTarget is a full rollback: the target is
\* empty, every object the call created is destroyed exactly once, after its
\* creation, and nothing else is destroyed.
RolledBack(r) ==
    /\ r.target = EmptyTarget
    /\ \A id \in CreatedBy(r.events) : DestroyCount(r.events, id) = 1
    /\ \A k \in 1..Len(r.events) :
          r.events[k].e = "Destroy" =>
             \E j \in 1..(k - 1) : r.events[j] = EvCreate(r.events[k].id)

\* objects of generation gen
OfGeneration(ids, gen) == {id \in ids : id[1] = gen}

\* C1: CreateTarget is all-or-nothing.  For every device Create call of a
\* CreateTarget call that can fail (k-th color image, depth image, clear pass,
\* load pass), CreateTarget returns that failure and leaves the target with no
\* color image, no depth image, no render pass and width = height = 0, and
\* every object created during the call has been destroyed exactly once.  It
\* is stated on the result of CreateTarget for every failure point, and on the
\* swapchain and the device after a Create or SetIndirectRenderSize that
\* failed.
C1_CreateTargetAllOrNothing ==
    /\ \A failAt \in 1..(4 * MaxImages), width \in 1..MaxSize, height \in 1..MaxSize,
          nColorHandles \in 0..MaxImages, nDepthHandles \in 0..MaxImages :
          \A r \in {CreateTarget(EmptyTarget, width, height, nColorHandles,
                                 nDepthHandles, nextGen, failAt)} :
             \/ r.res = SUCCESS /\ r.calls < failAt
             \/ /\ r.res = ERROR_API_FAILURE
                /\ r.calls = failAt
                /\ Occurrences(EventIds(r.events, "CreateFailed"), r.events[failAt].id) = 1
                /\ RolledBack(r)
    /\ device.misused = {}
    /\ (lastOp.name = "SetIndirectRenderSize" /\ lastOp.res # SUCCESS) =>
          /\ mIndirectTarget = EmptyTarget
          /\ OfGeneration(device.live, nextGen - 1) = {}
    /\ state = "CreateFailed" =>
          /\ mDeviceTarget = EmptyTarget
          /\ device.live = {}

\* a SetIndirectRenderSize whose target creation failed after objects were
\* created, on a swapchain with depth images
C1_Witness ==
    /\ lastOp.name = "SetIndirectRenderSize"
    /\ lastOp.res = ERROR_API_FAILURE
    /\ lastOp.calls >= 4
    /\ mCreateInfo.hasDepth
    /\ mIndirectTarget = EmptyTarget

\* C2: after SetIndirectRenderSize(w, h) returns success with w # 0 and
\* h # 0, the indirect target's width is w and its height is h, for every
\* (w, h), the sizes other than the configured one included.
C2_IndirectTargetHasRequestedSize ==
    (/\ lastOp.name = "SetIndirectRenderSize"
     /\ lastOp.res = SUCCESS
     /\ lastOp.width # 0
     /\ lastOp.height # 0)
    => /\ mIndirectTarget.width = lastOp.width
       /\ mIndirectTarget.height = lastOp.height

\* C3: SetIndirectRenderSize is idempotent.  After a successful call with a
\* non-zero (w, h), a second call with the same (w, h) makes no WaitIdle,
\* destroys and creates nothing, and leaves the indirect target's images the
\* same instances, for every non-zero (w, h).
C3_SetIndirectRenderSizeIdempotent ==
    (/\ state = "Ready"
     /\ lastOp.name = "SetIndirectRenderSize"
     /\ lastOp.res = SUCCESS
     /\ lastOp.width # 0
     /\ lastOp.height # 0)
    => \A r \in {SetIndirectRenderSize(lastOp.width, lastOp.height, nextGen, 0)} :
          /\ r.events = <<>>
          /\ r.target = mIndirectTarget
          /\ r.res = SUCCESS

\* C4: the order of events of Present(i, W) on a swapchain with a surface.
\* When slot i has an open recording (after the preamble step of the indirect
\* path): End of slot i's command buffer, isRecording[i] cleared, one Submit of
\* that command buffer waiting on W and signalling postProcessSemaphores[i],
\* then the backend present waiting on exactly postProcessSemaphores[i].
\* Otherwise no submission, and the backend present waits on exactly W.
C4_PresentEventOrder ==
    (state = "Ready" /\ ~IsHeadless) =>
       \A i \in Slots, W \in WaitLists :
          \A p \in {IF IsIndirect
                    THEN RecordPreamble(mCommandBuffers, mIsRecording, i)
                    ELSE Nothing(mCommandBuffers, mIsRecording)} :
          \A r \in {Present(mCommandBuffers, mIsRecording, i, W, SUCCESS)} :
             IF p.rec[i + 1]
             THEN /\ r.events = p.events \o
                       << EvEnd(i),
                          EvSubmit(i, W, <<mPostProcessSemaphores[i + 1]>>, Null,
                                   p.cbs[i + 1].cmds),
                          EvPresentInternal(i, <<mPostProcessSemaphores[i + 1]>>) >>
                  /\ ~r.rec[i + 1]
                  /\ ~r.cbs[i + 1].open
             ELSE r.events = <<EvPresentInternal(i, W)>>

\* C5: slot resources are private to their slot.  For every image index i,
\* the command buffer Present(i) ends and submits, and the one RecordUI(i)
\* records into, is commandBuffers[i], also when i is not currentImageIndex:
\* no operation on slot i begins, ends, records into or submits the command
\* buffer of another slot.
C5_SlotResourcesPrivate ==
    (state = "Ready" /\ ~IsHeadless) =>
       \A i \in Slots :
          /\ \A r \in {Present(mCommandBuffers, mIsRecording, i, <<>>, SUCCESS)} :
                /\ \A k \in 1..Len(r.events) :
                      r.events[k].e \in {"Begin", "End", "Submit"} => r.events[k].slot = i
                /\ \A j \in Slots \ {i} : r.cbs[j + 1] = mCommandBuffers[j + 1]
          /\ \A r \in {RecordUI(mCommandBuffers, mIsRecording, i)} :
                /\ \A j \in Slots \ {i} : r.cbs[j + 1] = mCommandBuffers[j + 1]
                /\ UICount(r.cbs[i + 1]) > 0

\* C6: on a headless swapchain with N images the k-th AcquireNextImage call
\* after Create returns image index (k - 1) mod N: the first call returns 0,
\* the index advances by one per call and wraps to 0 at the (N+1)-th call;
\* Present calls in between do not change the sequence.  acquireCount is k.
C6_HeadlessRoundRobin ==
    (state = "Ready" /\ IsHeadless) =>
       /\ mCurrentImageIndex = (acquireCount + mCreateInfo.imageCount - 1) % mCreateInfo.imageCount
       /\ lastOp.name = "AcquireNextImage" =>
             /\ acquireCount >= 1
             /\ lastOp.res = SUCCESS
             /\ lastOp.imageIndex = (acquireCount - 1) % mCreateInfo.imageCount
       /\ Len(mIndirectTarget.colorImages) = mCreateInfo.imageCount =>
             AcquireNextImageHeadless(mCommandBuffers, CallerSemaphore(1), CallerFence).index
                = acquireCount % mCreateInfo.imageCount

\* the (N+1)-th acquire, back at index 0, with a Present before it
C6_Witness ==
    /\ state = "Ready"
    /\ IsHeadless
    /\ mCreateInfo.imageCount = MaxImages
    /\ lastOp.name = "AcquireNextImage"
    /\ acquireCount = mCreateInfo.imageCount + 1
    /\ lastOp.imageIndex = 0
    /\ presented

\* C7: in headless mode, in every state reachable after Create by
\* SetIndirectRenderSize (any arguments), AcquireNextImage and Present, the
\* indirect target exists with imageCount color images at the configured
\* width and height.  It is stated on the states a SetIndirectRenderSize
\* that returned success leaves.
C7_HeadlessKeepsIndirectTarget ==
    (/\ state = "Ready"
     /\ IsHeadless
     /\ lastOp.name = "SetIndirectRenderSize"
     /\ lastOp.res = SUCCESS) =>
       /\ Len(mIndirectTarget.colorImages) = mCreateInfo.imageCount
       /\ mIndirectTarget.width = mCreateInfo.width
       /\ mIndirectTarget.height = mCreateInfo.height

\* C8: in every reachable state of a created swapchain, GetColorImage(i) and
\* GetRenderPass(i, op) return success with a non-null object for every
\* i < GetImageCount(), and OutOfRange without writing the output for every
\* i >= GetImageCount(); GetDepthImage(i) returns OutOfRange without writing
\* the output when i is not below the number of live depth images.
C8_AccessorsInRange ==
    state = "Ready" =>
       \A i \in 0..(MaxImages + 1) :
          /\ \A r \in {GetColorImage(i), GetRenderPass(i, "CLEAR"), GetRenderPass(i, "LOAD")} :
                IF i < GetImageCount
                THEN r.res = SUCCESS /\ r.out \notin {Null, Untouched}
                ELSE r.res = ERROR_OUT_OF_RANGE /\ r.out = Untouched
          /\ i >= Len(GetTarget.depthImages) =>
                GetDepthImage(i) = [res |-> ERROR_OUT_OF_RANGE, out |-> Untouched]

\* C9: once SetIndirectRenderSize(0, 0) has followed a non-zero call on a
\* swapchain with a surface, isIndirect is false and the indirect target is
\* empty, and while isIndirect stays false (until a call with non-zero
\* dimensions) every Present(i) on a slot with no open recording records
\* nothing, submits nothing and only makes the backend present.
C9_DisabledIndirectionSkipsPreamble ==
    (state = "Ready" /\ ~IsHeadless) =>
       /\ (lastOp.name = "SetIndirectRenderSize"
           /\ (lastOp.width = 0 \/ lastOp.height = 0)) => ~mIsIndirect
       /\ (lastOp.name = "SetIndirectRenderSize" /\ lastOp.res = SUCCESS
           /\ lastOp.width # 0 /\ lastOp.height # 0) => mIsIndirect
       /\ ~mIsIndirect =>
             /\ mIndirectTarget = EmptyTarget
             /\ \A i \in Slots, W \in WaitLists :
                   ~mIsRecording[i + 1] =>
                      \A r \in {Present(mCommandBuffers, mIsRecording, i, W, SUCCESS)} :
                         /\ r.events = <<EvPresentInternal(i, W)>>
                         /\ r.cbs = mCommandBuffers
                         /\ r.rec = mIsRecording

\* a Present that made the backend present only, on a swapchain whose
\* indirection was switched on (an indirect target was created) and off again
C9_Witness ==
    /\ state = "Ready"
    /\ ~IsHeadless
    /\ nextGen > 2
    /\ ~mIsIndirect
    /\ mIndirectTarget = EmptyTarget
    /\ lastOp.name = "Present"
    /\ lastOp.calls = 1

\* C10: RecordPreamble(i) is idempotent per recording scope.  Called again on
\* slot i with no Present(i) in between (scopeOpen[i]), it calls no Begin and
\* records no command, and leaves the command buffers and isRecording as they
\* are; on a headless swapchain it does nothing in any state.
C10_RecordPreambleIdempotent ==
    state = "Ready" =>
       \A i \in Slots :
          /\ IsHeadless =>
                RecordPreamble(mCommandBuffers, mIsRecording, i)
                   = Nothing(mCommandBuffers, mIsRecording)
          /\ (~IsHeadless /\ scopeOpen[i + 1]) =>
                /\ mIsRecording[i + 1]
                /\ RecordPreamble(mCommandBuffers, mIsRecording, i)
                      = Nothing(mCommandBuffers, mIsRecording)
          /\ (lastOp.name = "RecordPreamble" /\ lastOp.imageIndex = i /\ IsHeadless) =>
                lastOp.calls = 0 /\ ~mIsRecording[i + 1]

\* a second RecordPreamble on a slot of an indirect swapchain with a surface:
\* the call made no call, and the slot holds the one preamble of the first
C10_Witness ==
    /\ state = "Ready"
    /\ ~IsHeadless
    /\ mIsIndirect
    /\ lastOp.name = "RecordPreamble"
    /\ lastOp.calls = 0
    /\ scopeOpen[lastOp.imageIndex + 1]
    /\ mCommandBuffers[lastOp.imageIndex + 1].cmds = PreambleCommands(lastOp.imageIndex)

\* the offset, on one axis, of an image of size own in a copy to or from an
\* image of size other, when the smaller image is centred in the larger
CentredOffset(own, other) == IF own > other THEN (own - other) \div 2 ELSE 0

\* C11: the indirect-to-device copy recorded by RecordPreamble has, on each
\* axis, extent = min(indirect size, device size), the offset of the larger
\* image = (larger - smaller) / 2 and the offset of the smaller image = 0.  It
\* is stated after a SetIndirectRenderSize(w, h) that returned success, the
\* indirect size being (w, h) and the device size that of the device target.
C11_PreambleCopyCentred ==
    (/\ state = "Ready"
     /\ ~IsHeadless
     /\ lastOp.name = "SetIndirectRenderSize"
     /\ lastOp.res = SUCCESS
     /\ lastOp.width # 0
     /\ lastOp.height # 0)
    => \A i \in Slots :
          \A c \in {PreambleCommands(i)[6]} :
             /\ c.op = "CopyImageToImage"
             /\ c.extent = <<Min(lastOp.width, mDeviceTarget.width),
                             Min(lastOp.height, mDeviceTarget.height)>>
             /\ c.srcOffset = <<CentredOffset(lastOp.width, mDeviceTarget.width),
                                CentredOffset(lastOp.height, mDeviceTarget.height)>>
             /\ c.dstOffset = <<CentredOffset(mDeviceTarget.width, lastOp.width),
                                CentredOffset(mDeviceTarget.height, lastOp.height)>>

(***************************************************************************)
(* DeviceSwapchainWrap                                                     *)
(***************************************************************************)
\* C12: an acquire or present made through DeviceSwapchainWrap whose wrapped
\* swapchain returned OUT_OF_DATE or SUBOPTIMAL sets needUpdate, and returns
\* SUCCESS when the wrap was built with absorbError and the error itself when
\* it was not; every other result is returned as it is and leaves needUpdate
\* as it was before the call.
C12_DeviceWrapAbsorbsTransient ==
    (state = "Ready" /\ wrapOp.name \in {"AcquireNextImage", "Present"}) =>
        IF wrapOp.ppxres \in Transient
        THEN /\ mNeedUpdate
             /\ wrapOp.wrapped = (IF mAbsorbError THEN SUCCESS ELSE wrapOp.ppxres)
        ELSE /\ mNeedUpdate = wrapOp.needUpdate
             /\ wrapOp.wrapped = wrapOp.ppxres

\* a present of a suboptimal surface was absorbed
C12_Witness ==
    /\ state = "Ready"
    /\ wrapOp.name = "Present"
    /\ wrapOp.ppxres = ERROR_SUBOPTIMAL
    /\ mAbsorbError
    /\ wrapOp.wrapped = SUCCESS
    /\ ~wrapOp.needUpdate
    /\ mNeedUpdate

(***************************************************************************)
(* VirtualSwapchain                                                        *)
(***************************************************************************)
\* C13: an acquire or present made on the virtual swapchain (IndirectSwapchain
\* under WithPostProcess) returns SUCCESS when the next swapchain returned
\* SUBOPTIMAL or OUT_OF_DATE and returns every other result of the next
\* swapchain as it is; it never returns SUBOPTIMAL or OUT_OF_DATE.
C13_VirtualAbsorbsTransient ==
    (/\ state = "Ready"
     /\ wrapOp.layer = "Virtual"
     /\ wrapOp.name \in {"AcquireNextImage", "Present"}) =>
        /\ wrapOp.res = (IF wrapOp.wrapped \in Transient THEN SUCCESS ELSE wrapOp.wrapped)
        /\ wrapOp.res \notin Transient

\* the next swapchain handed an out-of-date surface to the virtual swapchain's
\* Present, after the blit was submitted, and the caller got SUCCESS
C13_Witness ==
    /\ state = "Ready"
    /\ wrapOp.layer = "Virtual"
    /\ wrapOp.name = "Present"
    /\ wrapOp.wrapped = ERROR_OUT_OF_DATE
    /\ wrapOp.res = SUCCESS
    /\ Len(wrapOp.events) = 4

(***************************************************************************)
(* Results of the backend                                                  *)
(***************************************************************************)
\* C14: on a swapchain with a surface, AcquireNextImage returns the result of
\* the backend's acquire and Present returns the result of the backend's
\* present, whatever that result is (out of date and suboptimal included),
\* on every slot and whether or not a recording is pending on it; the
\* backend's present is the last call Present makes.
C14_BackendResultsReported ==
    (state = "Ready" /\ ~IsHeadless) =>
        \A result \in Results, i \in Slots :
           /\ \A imageIndex \in ImageIndices :
                 AcquireNextImage(result, i, imageIndex).res = result
           /\ \A wait \in WaitLists :
                 \A r \in {Present(mCommandBuffers, mIsRecording, i, wait, result)} :
                    /\ r.res = result
                    /\ r.events[Len(r.events)].e = "PresentInternal"

\* a Present that submitted a pending recording returned the out-of-date
\* result of the backend
C14_Witness ==
    /\ state = "Ready"
    /\ ~IsHeadless
    /\ lastOp.name = "Present"
    /\ lastOp.calls >= 3
    /\ lastOp.res = ERROR_OUT_OF_DATE

(***************************************************************************)
(* Targets                                                                 *)
(***************************************************************************)
SameSizes(target) ==
    /\ Len(target.colorImages) = Len(target.loadRenderPasses)
    /\ Len(target.colorImages) = Len(target.clearRenderPasses)
    /\ Len(target.depthImages) \in {0, Len(target.colorImages)}

\* C15: between operations, each target has as many load render passes and as
\* many clear render passes as color images, and either no depth image or as
\* many depth images as color images.
C15_TargetVectorsSameSize ==
    state # "Crashed" => (SameSizes(mDeviceTarget) /\ SameSizes(mIndirectTarget))

ClearAndLoadPass(target, i) ==
    /\ target.clearRenderPasses[i + 1] # target.loadRenderPasses[i + 1]
    /\ \A rp \in {target.clearRenderPasses[i + 1], target.loadRenderPasses[i + 1]} :
          /\ rp \in device.live
          /\ device.attached[rp].color = target.colorImages[i + 1]
          /\ device.attached[rp].depth =
                (IF Len(target.depthImages) = 0 THEN Null
                 ELSE IF i < Len(target.depthImages) THEN target.depthImages[i + 1]
                 ELSE Untouched)

\* C16: for each target and each image i of it, the clear render pass i and
\* the load render pass i are two live objects, each created with color image
\* i and, when the target has depth images, depth image i of that target;
\* GetRenderPass(i, CLEAR) returns the first and GetRenderPass(i, LOAD) the
\* second, however often the targets were rebuilt.
C16_ClearAndLoadPassesPerImage ==
    state \in {"Ready", "CreateFailed"} =>
        /\ \A target \in {mDeviceTarget, mIndirectTarget} :
              \A i \in 0..(Len(target.colorImages) - 1) :
                 /\ Len(target.clearRenderPasses) = Len(target.colorImages)
                 /\ Len(target.loadRenderPasses) = Len(target.colorImages)
                 /\ ClearAndLoadPass(target, i)
        /\ \A i \in 0..(Len(GetTarget.colorImages) - 1) :
              /\ GetRenderPass(i, "CLEAR") =
                    [res |-> SUCCESS, out |-> GetTarget.clearRenderPasses[i + 1]]
              /\ GetRenderPass(i, "LOAD") =
                    [res |-> SUCCESS, out |-> GetTarget.loadRenderPasses[i + 1]]

\* C17: DestroyTarget leaves a target with no render pass, no depth image, no
\* color image and width = height = 0; it destroys the clear and load render
\* passes, then the depth images, then the color images, each once and each
\* a live object; on the target it leaves, and on a target that was never
\* created, it makes no call and changes nothing; no Destroy call was ever
\* made on an object that was not live.
C17_DestroyTargetIdempotent ==
    /\ device.misused = {}
    /\ DestroyTarget(EmptyTarget) = [target |-> EmptyTarget, events |-> <<>>]
    /\ state \in {"Ready", "CreateFailed"} =>
          \A target \in {mDeviceTarget, mIndirectTarget} :
             \A d \in {DestroyTarget(target)} :
                /\ d.target = EmptyTarget
                /\ d.target.width = 0 /\ d.target.height = 0
                /\ \A k \in 1..Len(d.events) : d.events[k].e = "Destroy"
                /\ EventIds(d.events, "Destroy") =
                      target.clearRenderPasses \o target.loadRenderPasses
                        \o target.depthImages \o target.colorImages
                /\ \A k \in 1..Len(d.events) :
                      /\ d.events[k].id \in device.live
                      /\ Occurrences(EventIds(d.events, "Destroy"), d.events[k].id) = 1
                /\ DestroyTarget(d.target) = [target |-> d.target, events |-> <<>>]

\* SetIndirectRenderSize(0, 0) destroyed a live indirect target
C17_Witness ==
    /\ state = "Ready"
    /\ lastOp.name = "SetIndirectRenderSize"
    /\ lastOp.width = 0
    /\ lastOp.calls > 1
    /\ mIndirectTarget = EmptyTarget

(***************************************************************************)
(* Frames in indirect mode                                                 *)
(***************************************************************************)
\* the submissions among the calls of an operation
Submissions(events) == SelectSeq(events, LAMBDA x: x.e = "Submit")

\* c is the copy of indirect color image i to device color image i
IsCopyOfSlot(c, i) ==
    /\ c.op = "CopyImageToImage"
    /\ c.a = mIndirectTarget.colorImages[i + 1]
    /\ c.b = mDeviceTarget.colorImages[i + 1]

\* both targets are live and the swapchain, with a surface, is indirect
IndirectOnSurface ==
    /\ state = "Ready"
    /\ ~IsHeadless
    /\ IsIndirect
    /\ Len(mIndirectTarget.colorImages) = mCreateInfo.imageCount
    /\ Len(mDeviceTarget.colorImages) = mCreateInfo.imageCount

\* C18: in indirect mode on a surface, for every slot i, RecordUI(i) followed
\* by Present(i) submits one command buffer; it ends with the commands of that
\* RecordUI(i): the callback, once, inside a render pass begun with load render
\* pass i of the device target, between the transitions of device color image
\* i to render target and back; and in it the copy of indirect image i to
\* device image i precedes every callback.
C18_CopyPrecedesUI ==
    IndirectOnSurface =>
       \A i \in Slots :
          \A u \in {RecordUI(mCommandBuffers, mIsRecording, i)} :
          \A r \in {Present(u.cbs, u.rec, i, <<>>, SUCCESS)} :
          \A sub \in {Submissions(r.events)} :
             /\ Len(sub) = 1
             /\ \A cmds \in {sub[1].cmds} :
                   /\ Len(cmds) >= 5
                   /\ SubSeq(cmds, Len(cmds) - 4, Len(cmds)) =
                         RenderPassCommands(mDeviceTarget.colorImages[i + 1],
                                            mDeviceTarget.loadRenderPasses[i + 1])
                   /\ \E c \in 1..Len(cmds) :
                         /\ IsCopyOfSlot(cmds[c], i)
                         /\ \A k \in 1..Len(cmds) : cmds[k].op = "Callback" => c < k

\* C19: in indirect mode on a surface, for every slot i, Present(i) makes one
\* submission, before the backend present; the command buffer submitted holds
\* exactly one copy, that of indirect image i to device image i, after a
\* render pass begun with clear render pass i of the device target, whatever
\* was recorded on the slot before.
C19_PresentSubmitsCopy ==
    IndirectOnSurface =>
       \A i \in Slots :
          \A r \in {Present(mCommandBuffers, mIsRecording, i, <<>>, SUCCESS)} :
          \A sub \in {Submissions(r.events)} :
             /\ Len(sub) = 1
             /\ r.events[Len(r.events)].e = "PresentInternal"
             /\ r.events[Len(r.events) - 1].e = "Submit"
             /\ \A cmds \in {sub[1].cmds} :
                   \E c \in 1..Len(cmds) :
                      /\ IsCopyOfSlot(cmds[c], i)
                      /\ \A k \in 1..Len(cmds) : cmds[k].op = "CopyImageToImage" => k = c
                      /\ \E b \in 1..(c - 1) :
                            cmds[b] = CmdBeginRenderPass(mDeviceTarget.clearRenderPasses[i + 1])

\* what the command buffer of a post-process Present of image i holds when
\* the viewport and the scissor are set whether or not a callback was
\* supplied, and the callback is called when one was
HookCommandsExpected(i) ==
    << CmdTransition(At(mDeviceTarget.colorImages, i), "PRESENT", "RENDER_TARGET"),
       CmdBeginRenderPass(At(mRenderPass.loadRenderPasses, i)),
       CmdSetViewports(mCreateInfo.width, mCreateInfo.height),
       CmdSetScissors(mCreateInfo.width, mCreateInfo.height) >>
    \o (IF mOnPresent THEN <<CmdCallback>> ELSE <<>>)
    \o << CmdEndRenderPass,
          CmdTransition(At(mDeviceTarget.colorImages, i), "RENDER_TARGET", "PRESENT") >>

\* C20: every Present(i, W) of the present hook makes four calls: Begin and
\* End of the hook's command buffer i, in which are recorded, once each and
\* in this order, the transition of color image i to render target, the begin
\* of load render pass i, viewport and scissor of the full render area, the
\* callback when one was supplied, the end of the pass and the transition
\* back; one Submit of it, waiting on W and signalling the hook's semaphore
\* i; then the wrapped Present waiting on that semaphore alone, whose result
\* is returned.
C20_ViewportAndScissorAlways ==
    (wrapOp.name = "Present" /\ wrapOp.layer = "Hook") =>
       \A i \in {wrapOp.imageIndex} :
       \A cb \in {At(mPostProcess.Hook.commandBuffers, i)} :
       \A sem \in {At(mPostProcess.Hook.semaphores, i)} :
          /\ state = "Ready"
          /\ Len(wrapOp.events) = 4
          /\ wrapOp.events[1] = Event("Begin", i, cb, <<>>, <<>>, Null, <<>>)
          /\ wrapOp.events[2] = Event("End", i, cb, <<>>, <<>>, Null, <<>>)
          /\ \E W \in WaitLists :
                wrapOp.events[3] = Event("Submit", i, cb, W, <<sem>>, Null,
                                         HookCommandsExpected(i))
          /\ wrapOp.events[4] = Event("Present", i, Null, <<sem>>, <<>>, Null, <<>>)
          /\ wrapOp.res = wrapOp.wrapped

\* the render passes of the cache, and the live render passes a cache made
CachedPasses(cache) ==
    {cache.clearRenderPasses[k] : k \in 1..Len(cache.clearRenderPasses)}
    \cup {cache.loadRenderPasses[k] : k \in 1..Len(cache.loadRenderPasses)}
LiveCachePasses == {id \in device.live : id[2] \in {"wrapClear", "wrapLoad"}}

\* C21: after every OnUpdate of the render-pass-caching wrap that returns
\* success (at creation, in ResizeSwapchain, in ReplaceSwapchain; the Resize
\* under ResizeSwapchain is modelled from its description) the cache
\* holds GetImageCount() clear passes and as many load passes, all different,
\* passes i made with the color image i, and the depth image i when there is
\* a depth format, that the wrapped swapchain has now; the passes the cache
\* held before are destroyed exactly once each, before the new ones are
\* created, so that the live passes are those of the cache; and
\* GetRenderPass hands out live passes of the last update only.
C21_CacheRebuiltOnUpdate ==
    /\ (wrapOp.name \in {"Create", "ResizeSwapchain", "ReplaceSwapchain"}
        /\ wrapOp.res = SUCCESS
        /\ mSwapchain = This) =>
          /\ Len(mRenderPass.clearRenderPasses) = GetImageCount
          /\ Len(mRenderPass.loadRenderPasses) = GetImageCount
          /\ Cardinality(CachedPasses(mRenderPass)) = 2 * GetImageCount
          /\ \A i \in Slots :
                /\ mRenderPass.attachments[i + 1].color = GetTarget.colorImages[i + 1]
                /\ mRenderPass.attachments[i + 1].color \in device.live
                /\ mRenderPass.attachments[i + 1].depth =
                      (IF mCreateInfo.hasDepth THEN GetTarget.depthImages[i + 1] ELSE Null)
    /\ LiveCachePasses = CachedPasses(mRenderPass)
    /\ device.misused = {}
    /\ \A failAt \in UpdateFailPoints :
          \A u \in {UpdateRenderPass(mRenderPass, GetTarget, mCreateInfo.hasDepth,
                                     GetImageCount, nextGen, failAt)} :
             /\ \A id \in CachedPasses(mRenderPass) :
                   /\ DestroyCount(u.events, id) = 1
                   /\ id \notin CachedPasses(u.cache)
             /\ \A k \in 1..Len(u.events) :
                   u.events[k].e = "Destroy" =>
                      \A j \in 1..(k - 1) : u.events[j].e = "Destroy"
    /\ mRenderPass.device =>
          \A i \in Slots, loadOp \in {"CLEAR", "LOAD"} :
             \A rp \in {WrapGetRenderPass(i, loadOp)} :
                rp \notin {Null, Garbage} =>
                   /\ rp \in device.live
                   /\ \A id \in LiveCachePasses : id[1] = rp[1]

\* a successful ReplaceSwapchain destroyed the two passes the cache held for
\* a swapchain of one image and made those of the swapchain it was handed,
\* which has depth images and MaxImages images
C21_Witness ==
    /\ wrapOp.name = "ReplaceSwapchain"
    /\ wrapOp.res = SUCCESS
    /\ mSwapchain = This
    /\ mCreateInfo.hasDepth
    /\ GetImageCount = MaxImages
    /\ Len(SelectSeq(wrapOp.events, LAMBDA x : x.e = "Destroy")) = 2
    /\ Len(mRenderPass.loadRenderPasses) = MaxImages

\* the positions in an event log of the Destroy calls made on the objects ids
DestroysOf(events, ids) ==
    {k \in 1..Len(events) : events[k].e = "Destroy"
                            /\ \E j \in 1..Len(ids) : ids[j] = events[k].id}
TargetObjects(target) ==
    target.clearRenderPasses \o target.loadRenderPasses
    \o target.depthImages \o target.colorImages
Before(a, b) == \A j \in a, k \in b : j < k

\* C22: Destroy tears down the indirect target, then the device target, then
\* the XR color swapchain and the XR depth swapchain (each when its handle is
\* not null), then every post-process semaphore, then every command buffer (a
\* slot whose CreateCommandBuffer failed has none), then the base class, each
\* object owned being destroyed exactly once and nothing else; afterwards
\* both targets are empty with width = height = 0, the lists of semaphores,
\* command buffers and recording flags are empty, and no object the swapchain
\* made on the device is live.
C22_DestroyOrder ==
    /\ state = "Ready" =>
          \A ev \in {Destroy} :
          \A ind \in {DestroysOf(ev, TargetObjects(mIndirectTarget))} :
          \A dev \in {DestroysOf(ev, TargetObjects(mDeviceTarget))} :
          \A xr \in {{k \in 1..Len(ev) : ev[k].e = "xrDestroySwapchain"}} :
          \A sem \in {DestroysOf(ev, mPostProcessSemaphores)} :
          \A cbs \in {{k \in 1..Len(ev) : ev[k].e = "DestroyCommandBuffer"}} :
             /\ Before(ind, dev) /\ Before(dev, xr) /\ Before(xr, sem) /\ Before(sem, cbs)
             /\ Before(ind, xr) /\ Before(dev, sem)
             /\ ev[Len(ev)].e = "DeviceObjectDestroy"
             /\ ind \cup dev \cup xr \cup sem \cup cbs = 1..(Len(ev) - 1)
             /\ \A j \in 1..Len(TargetObjects(mIndirectTarget)) :
                   DestroyCount(ev, TargetObjects(mIndirectTarget)[j]) = 1
             /\ \A j \in 1..Len(TargetObjects(mDeviceTarget)) :
                   DestroyCount(ev, TargetObjects(mDeviceTarget)[j]) = 1
             /\ \A handle \in {mXrColorSwapchain, mXrDepthSwapchain} :
                   Cardinality({k \in xr : ev[k].id = handle}) =
                      (IF handle = XR_NULL_HANDLE THEN 0 ELSE 1)
             /\ \A k \in xr : ev[k].id \in {mXrColorSwapchain, mXrDepthSwapchain}
             /\ \A j \in 1..Len(mPostProcessSemaphores) :
                   DestroyCount(ev, mPostProcessSemaphores[j]) = 1
             /\ \A i \in 0..(Len(mCommandBuffers) - 1) :
                   Cardinality({k \in cbs : ev[k].slot = i}) =
                      (IF mCommandBuffers[i + 1] = NullCommandBuffer THEN 0 ELSE 1)
    /\ state = "Destroyed" =>
          /\ mIndirectTarget = EmptyTarget
          /\ mDeviceTarget = EmptyTarget
          /\ mPostProcessSemaphores = <<>>
          /\ mCommandBuffers = <<>>
          /\ mIsRecording = <<>>
          /\ device.live = {}
          /\ device.misused = {}

\* a swapchain with a surface, depth images and both XR swapchains that was
\* indirect, with MaxImages slots, was destroyed
C22_Witness ==
    /\ state = "Destroyed"
    /\ ~IsHeadless
    /\ mIsIndirect
    /\ mCreateInfo.hasDepth
    /\ mXrColorSwapchain # XR_NULL_HANDLE
    /\ mXrDepthSwapchain # XR_NULL_HANDLE
    /\ lastOp.calls = 8 * MaxImages + 2 + 2 * MaxImages + 1

\* the objects of a kind an event log created, in order
CreatedOfKind(events, kind) ==
    SelectSeq(EventIds(events, "Create"), LAMBDA id : id[2] = kind)

\* C23: CreateTarget given k > 0 color handles and m > 0 depth handles gives a
\* target with exactly k color images and exactly m depth images, image j
\* wrapping handle j, and creates no other image; with no handles of a kind
\* it allocates imageCount images of that kind (depth images only when a
\* depth format is configured).
C23_HandlesWrapped ==
    \A k \in 0..MaxImages, m \in 0..MaxImages :
       \A r \in {CreateTarget(EmptyTarget, mCreateInfo.width, mCreateInfo.height,
                              k, m, nextGen, 0)} :
       \A nColor \in {IF k > 0 THEN k ELSE mCreateInfo.imageCount} :
       \A nDepth \in {IF m > 0 THEN m
                      ELSE IF mCreateInfo.hasDepth THEN mCreateInfo.imageCount ELSE 0} :
          /\ r.res = SUCCESS
          /\ r.target.colorImages = [j \in 1..nColor |-> ObjId(nextGen, "color", j - 1)]
          /\ r.target.depthImages = [j \in 1..nDepth |-> ObjId(nextGen, "depth", j - 1)]
          /\ CreatedOfKind(r.events, "color") = r.target.colorImages
          /\ CreatedOfKind(r.events, "depth") = r.target.depthImages

\* C24: between operations of a swapchain that was created, isIndirect is true
\* exactly when the indirect target is active: its width and height are not
\* zero and it has color images.
C24_IsIndirectDerived ==
    state = "Ready" =>
       (mIsIndirect <=> (/\ mIndirectTarget.width # 0
                         /\ mIndirectTarget.height # 0
                         /\ Len(mIndirectTarget.colorImages) > 0))

\* C25: Create with a null queue returns ERROR_UNEXPECTED_NULL_ARGUMENT and
\* allocates nothing: it makes no call on the device or the queue, both
\* targets stay empty, there is no command buffer, recording flag or
\* semaphore, no object is live, and the swapchain is not ready.
C25_NullQueueAllocatesNothing ==
    (lastOp.name = "Create" /\ lastOp.res = ERROR_UNEXPECTED_NULL_ARGUMENT) =>
       /\ state = "CreateFailed"
       /\ lastOp.calls = 0
       /\ mDeviceTarget = EmptyTarget
       /\ mIndirectTarget = EmptyTarget
       /\ ~mIsIndirect
       /\ mCommandBuffers = <<>>
       /\ mIsRecording = <<>>
       /\ mPostProcessSemaphores = <<>>
       /\ device.live = {}
       /\ nextGen = 1

\* Create was called with a null queue on a headless swapchain with MaxImages
\* images
C25_Witness ==
    /\ lastOp.name = "Create"
    /\ lastOp.res = ERROR_UNEXPECTED_NULL_ARGUMENT
    /\ IsHeadless
    /\ mCreateInfo.imageCount = MaxImages

\* C26: on a swapchain with a surface, in every state between operations and
\* for every slot i, isRecording[i] is true exactly when command buffer i is
\* open (Begin was called on it and End was not, since).
C26_RecordingFlagMatchesScope ==
    (state = "Ready" /\ ~IsHeadless) =>
       \A i \in Slots : mIsRecording[i + 1] <=> mCommandBuffers[i + 1].open

\* the images and render passes the commands of a command buffer refer to
Referenced(cmds) ==
    {cmds[k].a : k \in 1..Len(cmds)} \cup {cmds[k].b : k \in 1..Len(cmds)}

\* C27: on a swapchain with a surface, in every state RecordPreamble,
\* RecordUI, SetIndirectRenderSize and Present reach, every command buffer a
\* Present(i) submits refers to live images and render passes only.
C27_SubmittedCommandsReferLive ==
    (state = "Ready" /\ ~IsHeadless) =>
       \A i \in Slots :
          \A r \in {Present(mCommandBuffers, mIsRecording, i, <<>>, SUCCESS)} :
          \A sub \in {Submissions(r.events)} :
             \A k \in 1..Len(sub) :
                Referenced(sub[k].cmds) \subseteq device.live \cup {Null}

\* C28: a SetIndirectRenderSize whose dimensions differ from those of the
\* indirect target waits once for the queue to be idle, before anything else;
\* then destroys every object of the target; and only then creates the
\* objects of the new target (when both dimensions are not zero).  One whose
\* dimensions are those of the target makes no call at all.
C28_IdleThenDestroyThenCreate ==
    state = "Ready" =>
       \A width \in Sizes, height \in Sizes, failAt \in FailPoints :
          \A r \in {SetIndirectRenderSize(width, height, nextGen, failAt)} :
          \A old \in {DestroysOf(r.events, TargetObjects(mIndirectTarget))} :
          \A new \in {{k \in 1..Len(r.events) : r.events[k].e \in {"Create", "CreateFailed"}}} :
             IF mIndirectTarget.width = width /\ mIndirectTarget.height = height
             THEN r.events = <<>>
             ELSE /\ r.events[1] = EvWaitIdle
                  /\ Occurrences(r.events, EvWaitIdle) = 1
                  /\ Cardinality(old) = Len(TargetObjects(mIndirectTarget))
                  /\ old = 2..(Len(TargetObjects(mIndirectTarget)) + 1)
                  /\ Before(old, new)
                  /\ (width # 0 /\ height # 0) <=> new # {}

\* a SetIndirectRenderSize replaced a live indirect target of MaxImages
\* images with depth by another: one wait, the destroys, the creates
C28_Witness ==
    /\ lastOp.name = "SetIndirectRenderSize"
    /\ lastOp.res = SUCCESS
    /\ lastOp.calls = 1 + 8 * MaxImages
    /\ Len(mIndirectTarget.depthImages) = MaxImages

\* C29: a Present(i) on a swapchain with a surface that returns, whatever the
\* backend present returned, leaves isRecording[i] false, and leaves the
\* recording flags of the other slots, currentImageIndex, isIndirect and both
\* targets as they were.
C29_PresentClearsRecordingFlag ==
    [][(lastOp'.name = "Present" /\ state' = "Ready" /\ ~IsHeadless) =>
          /\ mIsRecording' = [mIsRecording EXCEPT ![lastOp'.imageIndex + 1] = FALSE]
          /\ UNCHANGED <<mCurrentImageIndex, mIsIndirect, mDeviceTarget, mIndirectTarget>>
      ]_vars

\* a Present of a slot with a recording pending, submitted it and the backend
\* reported the surface out of date
C29_Witness ==
    /\ lastOp.name = "Present"
    /\ lastOp.res = ERROR_OUT_OF_DATE
    /\ lastOp.calls = 3
    /\ ~IsIndirect
    /\ ~mIsRecording[lastOp.imageIndex + 1]

\* C30: the need-update flag of DeviceSwapchainWrap is a latch.  SetNeedUpdate
\* sets it, and so does an acquire or present of the wrapped swapchain that
\* returns ERROR_OUT_OF_DATE or ERROR_SUBOPTIMAL, absorbed or not; it goes
\* from true to false only in a ReplaceSwapchain or in a ResizeSwapchain whose
\* Resize succeeded, both of which leave it false; a ResizeSwapchain whose
\* Resize failed returns the result of Resize and runs no OnUpdate: the flag
\* and the render pass cache are as they were, and no pass of the cache was
\* destroyed or created.  (What Resize itself does is modelled from its
\* description.)
C30_NeedUpdateLatch ==
    [][/\ (mNeedUpdate /\ ~mNeedUpdate') =>
             \/ wrapOp'.name = "ReplaceSwapchain"
             \/ wrapOp'.name = "ResizeSwapchain" /\ wrapOp'.ppxres = SUCCESS
       /\ wrapOp'.name = "SetNeedUpdate" => mNeedUpdate'
       /\ (wrapOp'.name \in {"AcquireNextImage", "Present"}
           /\ wrapOp'.ppxres \in Transient) => mNeedUpdate'
       /\ (wrapOp'.name \in {"AcquireNextImage", "Present"}
           /\ wrapOp'.ppxres \notin Transient) => mNeedUpdate' = mNeedUpdate
       /\ wrapOp'.name = "ReplaceSwapchain" => ~mNeedUpdate'
       /\ (wrapOp'.name = "ResizeSwapchain" /\ wrapOp'.ppxres = SUCCESS) => ~mNeedUpdate'
       /\ (wrapOp'.name = "ResizeSwapchain" /\ wrapOp'.ppxres # SUCCESS) =>
             /\ mNeedUpdate' = mNeedUpdate
             /\ mRenderPass' = mRenderPass
             /\ LiveCachePasses' = LiveCachePasses
             /\ wrapOp'.events = <<>>
             /\ wrapOp'.res = wrapOp'.ppxres
      ]_vars

\* a ResizeSwapchain whose Resize failed after it tore the device target down
\* was made with the flag set by an absorbed transient result, and the flag
\* is still set
C30_Witness ==
    /\ wrapOp.name = "ResizeSwapchain"
    /\ wrapOp.ppxres = ERROR_API_FAILURE
    /\ lastOp.name = "Resize"
    /\ lastOp.calls > 0
    /\ wrapOp.needUpdate
    /\ mNeedUpdate
    /\ mAbsorbError

(***************************************************************************)
(* Headless frames                                                         *)
(***************************************************************************)
\* C31: on a headless swapchain Present(i, W), for every slot i and wait list
\* W, makes no backend present and records no preamble: its calls are Begin
\* and End of the command buffer of mCurrentImageIndex and one submission of
\* that empty command buffer waiting on W, signalling nothing; it returns
\* SUCCESS and leaves mCurrentImageIndex and the recording flags as they
\* were, and every recording flag of a headless swapchain is false.  It is
\* stated on the calls that return: the current slot has a command buffer.
C31_HeadlessPresent ==
    [][(lastOp'.name = "Present" /\ IsHeadless /\ state' = "Ready") =>
          /\ lastOp'.res = SUCCESS
          /\ mCurrentImageIndex' = mCurrentImageIndex
          /\ mIsRecording' = mIsRecording
          /\ \A k \in 1..Len(mIsRecording') : ~mIsRecording'[k]
          /\ \A wait \in WaitLists :
             \A r \in {PresentHeadless(mCommandBuffers, lastOp'.imageIndex, wait)} :
                /\ r.res = SUCCESS
                /\ r.events = <<EvBegin(mCurrentImageIndex), EvEnd(mCurrentImageIndex),
                                EvSubmit(mCurrentImageIndex, wait, <<>>, Null, <<>>)>>
                /\ r.cbs[mCurrentImageIndex + 1] = NewCommandBuffer
                /\ \A j \in Slots \ {mCurrentImageIndex} : r.cbs[j + 1] = mCommandBuffers[j + 1]
          /\ \E wait \in WaitLists :
             \E r \in {PresentHeadless(mCommandBuffers, lastOp'.imageIndex, wait)} :
                /\ mCommandBuffers' = r.cbs
                /\ lastOp'.calls = Len(r.events)
      ]_vars

\* a headless Present of a slot that is not the current one, after an acquire
\* and a RecordPreamble call
C31_Witness ==
    /\ state = "Ready"
    /\ IsHeadless
    /\ lastOp.name = "Present"
    /\ lastOp.imageIndex # mCurrentImageIndex
    /\ acquireCount > 0
    /\ lastOp.res = SUCCESS
    /\ lastOp.calls = 3

\* C32: every AcquireNextImage on a headless swapchain returns SUCCESS and
\* makes no backend acquire: it selects the next slot, begins and ends that
\* slot's command buffer and submits it once, empty, waiting on nothing and
\* signalling the caller's semaphore and the caller's fence.
C32_HeadlessAcquireSignals ==
    /\ (IsHeadless /\ lastOp.name = "AcquireNextImage") =>
          /\ state = "Ready"
          /\ lastOp.res = SUCCESS
          /\ lastOp.calls = 3
    /\ (IsHeadless /\ state = "Ready") =>
          /\ Len(mIndirectTarget.colorImages) > 0
          /\ \A r \in {AcquireNextImageHeadless(mCommandBuffers, CallerSemaphore(1), CallerFence)} :
                /\ r.res = SUCCESS
                /\ r.index = (mCurrentImageIndex + 1) % mCreateInfo.imageCount
                /\ r.events = <<EvBegin(r.index), EvEnd(r.index),
                                EvSubmit(r.index, <<>>, <<CallerSemaphore(1)>>, CallerFence, <<>>)>>
                /\ r.cbs[r.index + 1] = NewCommandBuffer

(***************************************************************************)
(* The virtual swapchain                                                   *)
(***************************************************************************)
\* the number origin + floor((own - other) / 2) when own is the larger of
\* the two widths, and origin otherwise
AdvancedOrigin(origin, own, other) ==
    IF AtMost(Limbs(own), Limbs(other)) THEN Limbs(origin)
    ELSE Plus(Limbs(origin), Halved(Minus(Limbs(own), Limbs(other))))

\* the render areas that lie inside an image of at most AreaSize by AreaSize
AreasInside ==
    {r \in RenderAreas : /\ r.x >= 0 /\ r.y >= 0 /\ r.width # 0 /\ r.height # 0
                         /\ AtMost(Plus(Limbs(r.x), Limbs(r.width)), Limbs(AreaSize))
                         /\ AtMost(Plus(Limbs(r.y), Limbs(r.height)), Limbs(AreaSize))}

\* C33: the copy IndirectSwapchain::RecordCommands records, from the virtual
\* swapchain's render area src into every render area dst of a next
\* swapchain, has extent min(src, dst) on each axis; on each axis the origin
\* of the larger area is advanced by floor((larger - smaller) / 2) and the
\* other origin is the area's own, these being sums of numbers that do not
\* wrap, so that the copied region lies inside src and inside dst.  The copy
\* submitted by a Present through the virtual swapchain is that copy for the
\* wrapped swapchain's render area.
C33_BlitCentredAndInside ==
    (state = "Ready" /\ mRenderPass.device /\ mPostProcess.Virtual.queue) =>
       \A src \in {VirtualGetRenderArea} :
          /\ \A dst \in AreasInside \cup {GetRenderArea} :
             \A c \in {IndirectCopy(IndirectRecordCommands(0)[6], src, dst)} :
                /\ c.op = "CopyImageToImage"
                /\ c.extent = <<UMin(src.width, dst.width), UMin(src.height, dst.height)>>
                /\ Limbs(c.srcOffset[1]) = AdvancedOrigin(src.x, src.width, dst.width)
                /\ Limbs(c.srcOffset[2]) = AdvancedOrigin(src.y, src.height, dst.height)
                /\ Limbs(c.dstOffset[1]) = AdvancedOrigin(dst.x, dst.width, src.width)
                /\ Limbs(c.dstOffset[2]) = AdvancedOrigin(dst.y, dst.height, src.height)
                /\ \A axis \in 1..2 :
                   \A s \in {IF axis = 1 THEN <<src.x, src.width>> ELSE <<src.y, src.height>>} :
                   \A d \in {IF axis = 1 THEN <<dst.x, dst.width>> ELSE <<dst.y, dst.height>>} :
                      /\ AtMost(Limbs(s[1]), Limbs(c.srcOffset[axis]))
                      /\ AtMost(Plus(Limbs(c.srcOffset[axis]), Limbs(c.extent[axis])),
                                Plus(Limbs(s[1]), Limbs(s[2])))
                      /\ AtMost(Limbs(d[1]), Limbs(c.dstOffset[axis]))
                      /\ AtMost(Plus(Limbs(c.dstOffset[axis]), Limbs(c.extent[axis])),
                                Plus(Limbs(d[1]), Limbs(d[2])))
          /\ (wrapOp.name = "Present" /\ wrapOp.layer = "Virtual") =>
                \A sub \in {Submissions(wrapOp.events)} :
                   /\ Len(sub) = 1
                   /\ sub[1].cmds = IndirectRecordCommands(wrapOp.imageIndex)
                   /\ sub[1].cmds[6] = IndirectCopy(sub[1].cmds[6], src, GetRenderArea)

\* a frame presented through a virtual swapchain whose render area was set
\* inside the image and below its origin, wider than the wrapped swapchain by
\* three and less high than it
C33_Witness ==
    /\ state = "Ready"
    /\ wrapOp.name = "Present"
    /\ wrapOp.layer = "Virtual"
    /\ mRenderArea.y > 0
    /\ mRenderArea.x + mRenderArea.width <= mVirtualCreateInfo.width
    /\ mRenderArea.y + mRenderArea.height <= mVirtualCreateInfo.height
    /\ mRenderArea.width = mCreateInfo.width + 3
    /\ mRenderArea.height > 0
    /\ mRenderArea.height < mCreateInfo.height
    /\ Submissions(wrapOp.events)[1].cmds[6].srcOffset = <<mRenderArea.x + 1, mRenderArea.y>>

(***************************************************************************)
(* Slots                                                                   *)
(***************************************************************************)
\* the per-slot lists have n entries each, and so has every target that
\* holds an object
SlotCount(n) ==
    /\ Len(mCommandBuffers) = n
    /\ Len(mIsRecording) = n
    /\ Len(mPostProcessSemaphores) = n
    /\ \A t \in {mDeviceTarget, mIndirectTarget} :
          Len(TargetObjects(t)) > 0 => Len(t.colorImages) = n

\* C34: in every state from a successful Create on, mCommandBuffers,
\* mIsRecording and mPostProcessSemaphores have one entry per slot, as many
\* as GetImageCount() says: the number of color images of the device target
\* when there is a surface, the number asked for when headless; every target
\* that exists has that many color images, and right after Create every
\* recording flag is false.
C34_OneEntryPerSlot ==
    [][state' = "Ready" =>
          /\ SlotCount(GetImageCount)'
          /\ ~IsHeadless' => GetImageCount' = Len(mDeviceTarget'.colorImages)
          /\ state = "Uninitialized" =>
                /\ \A k \in 1..Len(mIsRecording') : ~mIsRecording'[k]
                /\ IsHeadless => GetImageCount' = GetImageCount
      ]_vars

\* a swapchain with a surface and MaxImages slots, to which an indirect
\* target was added after Create
C34_Witness ==
    /\ state = "Ready"
    /\ ~IsHeadless
    /\ Len(mCommandBuffers) = MaxImages
    /\ Len(mDeviceTarget.colorImages) = MaxImages
    /\ Len(mIndirectTarget.colorImages) = MaxImages
    /\ lastOp.name = "SetIndirectRenderSize"

(***************************************************************************)
(* XR                                                                      *)
(***************************************************************************)
\* C35: an AcquireNextImage on a swapchain made with an XR component returns
\* only when the color swapchain handle is not null, neither a semaphore nor a
\* fence was given and the depth swapchain, if there is one, handed out the
\* index the color swapchain handed out; it then returns SUCCESS with that
\* index.  When the two indices differ the process ends at the assertion,
\* after the calls on both XR swapchains; no result code stands for the
\* divergence, the path having no result but SUCCESS.  (The assertion macro
\* is modelled from its description: fatal.)
C35_XrIndicesInLockStep ==
    /\ (lastOp.name = "AcquireNextImage" /\ mCreateInfo.pXrComponent /\ state = "Ready") =>
          /\ lastOp.res = SUCCESS
          /\ lastOp.hasColorSwapchain
          /\ lastOp.semaphore = Null
          /\ lastOp.fence = Null
          /\ lastOp.hasDepthSwapchain => lastOp.depthIndex = lastOp.colorIndex
          /\ lastOp.imageIndex = lastOp.colorIndex
    /\ (lastOp.name = "AcquireNextImage" /\ mCreateInfo.pXrComponent /\ state = "Crashed") =>
          \/ ~lastOp.hasColorSwapchain /\ lastOp.calls = 0
          \/ lastOp.semaphore # Null /\ lastOp.calls = 0
          \/ lastOp.fence # Null /\ lastOp.calls = 0
          \/ /\ lastOp.hasDepthSwapchain
             /\ lastOp.depthIndex # lastOp.colorIndex
             /\ lastOp.calls = 4
    /\ \A colorIndex \in 0..(MaxImages - 1), depthIndex \in 0..(MaxImages - 1) :
          \A r \in {XrAcquireNextImage(colorIndex, depthIndex, TRUE, TRUE, Null, Null)} :
             /\ r.res = SUCCESS
             /\ r.index = depthIndex
             /\ (colorIndex # depthIndex) => PPX_ASSERT_MSG(~r.asserted) = {"crash"}
             /\ (colorIndex = depthIndex) => PPX_ASSERT_MSG(~r.asserted) = {"continue"}

\* the process ended in an acquire, called without semaphore and fence, in
\* which the XR depth swapchain handed out another index than the XR color
\* swapchain
C35_Witness ==
    /\ state = "Crashed"
    /\ lastOp.name = "AcquireNextImage"
    /\ mCreateInfo.pXrComponent
    /\ lastOp.hasColorSwapchain
    /\ lastOp.hasDepthSwapchain
    /\ lastOp.semaphore = Null
    /\ lastOp.fence = Null
    /\ lastOp.colorIndex = 0
    /\ lastOp.depthIndex = MaxImages - 1
    /\ lastOp.calls = 4

(***************************************************************************)
(* Acquires through the wraps                                              *)
(***************************************************************************)
\* C36: when the wrapped swapchain's acquire returned ERROR_OUT_OF_DATE, an
\* AcquireNextImage through DeviceSwapchainWrap returns SUCCESS exactly when
\* the wrap absorbs errors, and one through the virtual swapchain always
\* does; whenever SUCCESS is returned the image index handed to the caller
\* is 0, whatever the caller's variable held, and the wraps made exactly one
\* call, a submission without a command buffer that signals the caller's
\* semaphore and the caller's fence; when the error is returned the wraps
\* made no call and the index is as the wrapped swapchain left it, which is
\* the value the caller's variable had before the call.
C36_AbsorbedAcquireReleasesCaller ==
    /\ (wrapOp.name = "AcquireNextImage" /\ wrapOp.ppxres = ERROR_OUT_OF_DATE) =>
          /\ wrapOp.res = (IF mAbsorbError \/ wrapOp.layer = "Virtual"
                           THEN SUCCESS ELSE ERROR_OUT_OF_DATE)
          /\ lastOp.calls = 1
          /\ IF wrapOp.res = SUCCESS
             THEN /\ wrapOp.imageIndex = 0
                  /\ wrapOp.events = <<EvSubmitNothing(<<CallerSemaphore(1)>>, CallerFence)>>
             ELSE /\ wrapOp.events = <<>>
                  /\ wrapOp.imageIndex = lastOp.imageIndex
    /\ \A index \in ImageIndices :
          /\ \A d \in {DeviceWrapAcquireNextImage(ERROR_OUT_OF_DATE, index,
                                                  CallerSemaphore(1), CallerFence)} :
                IF mAbsorbError
                THEN /\ d.res = SUCCESS
                     /\ d.index = 0
                     /\ d.events = <<EvSubmitNothing(<<CallerSemaphore(1)>>, CallerFence)>>
                ELSE /\ d.res = ERROR_OUT_OF_DATE
                     /\ d.index = index
                     /\ d.events = <<>>
          /\ \A r \in {IndirectAcquireNextImage(ERROR_OUT_OF_DATE, index,
                                                CallerSemaphore(1), CallerFence)} :
                /\ r.res = SUCCESS
                /\ r.index = 0
                /\ r.events = <<EvSubmitNothing(<<CallerSemaphore(1)>>, CallerFence)>>
          /\ \A result \in {ERROR_OUT_OF_DATE, ERROR_API_FAILURE} :
                AcquireNextImage(result, 0, index).index = index

\* the virtual swapchain, on a wrap that does not absorb errors, turned an
\* out-of-date acquire that left the caller's variable at a value that is no
\* slot into SUCCESS with index 0 and one signalling submission
C36_Witness ==
    /\ wrapOp.name = "AcquireNextImage"
    /\ wrapOp.layer = "Virtual"
    /\ wrapOp.ppxres = ERROR_OUT_OF_DATE
    /\ wrapOp.wrapped = ERROR_OUT_OF_DATE
    /\ ~mAbsorbError
    /\ wrapOp.res = SUCCESS
    /\ lastOp.imageIndex = MaxImages
    /\ wrapOp.imageIndex = 0
    /\ Len(wrapOp.events) = 1
    /\ mCreateInfo.imageCount = MaxImages

\* C37: a caller of the virtual swapchain that presents the image index the
\* preceding AcquireNextImage handed to it with SUCCESS makes the blit into
\* the next swapchain's color image of that index, and the next swapchain's
\* Present of that index, only for an index the next swapchain's own
\* AcquireNextImage returned with success (suboptimal included).
C37_PresentsOnlyAcquired ==
    [][(/\ wrapOp.name = "AcquireNextImage"
        /\ wrapOp.layer = "Virtual"
        /\ wrapOp.res = SUCCESS
        /\ wrapOp'.name = "Present"
        /\ wrapOp'.layer = "Virtual"
        /\ wrapOp'.imageIndex = wrapOp.imageIndex
        /\ \E k \in 1..Len(wrapOp'.events) :
              wrapOp'.events[k] = EvPresent(wrapOp.imageIndex,
                                            <<At(mPostProcess.Virtual.semaphores,
                                                 wrapOp.imageIndex)>>))
       => /\ wrapOp.wrapped \in {SUCCESS, ERROR_SUBOPTIMAL}
          /\ lastOp.name = "AcquireNextImage"
          /\ lastOp.imageIndex = wrapOp.imageIndex
      ]_vars

(***************************************************************************)
(* The render pass cache                                                   *)
(***************************************************************************)
\* C38: in every state the render pass cache of DeviceSwapchainWrap has as
\* many load passes as clear passes, also after an UpdateRenderPass in which
\* a creation failed, so that GetRenderPass(i, LOAD) for an index that is in
\* range of the clear passes reads a load pass that exists.
C38_CacheListsSameLength ==
    /\ Len(mRenderPass.loadRenderPasses) = Len(mRenderPass.clearRenderPasses)
    /\ \A i \in 0..(MaxImages - 1) :
          IsIndexInRange(i, mRenderPass.clearRenderPasses) =>
             /\ IsIndexInRange(i, mRenderPass.loadRenderPasses)
             /\ WrapGetRenderPass(i, "LOAD") = mRenderPass.loadRenderPasses[i + 1]

(***************************************************************************)
(* The render area of the virtual swapchain                                *)
(***************************************************************************)
\* C39: in every state of a virtual swapchain its render area has x >= 0,
\* y >= 0, a width and a height that are not zero, and x + width and
\* y + height, as sums of integers, at most the image's width and height; an
\* UpdateRenderArea whose argument is negative, empty or reaches outside the
\* image leaves the render area as it was, and so does one whose argument is
\* the current render area.
C39_RenderAreaInsideImage ==
    wrapOp.name = "UpdateRenderArea" =>
       /\ \A r \in {VirtualGetRenderArea} :
             /\ r.x >= 0
             /\ r.y >= 0
             /\ r.width # 0
             /\ r.height # 0
             /\ AtMost(Plus(Limbs(r.x), Limbs(r.width)), Limbs(mVirtualCreateInfo.width))
             /\ AtMost(Plus(Limbs(r.y), Limbs(r.height)), Limbs(mVirtualCreateInfo.height))
       /\ \A a \in RenderAreas :
             (\/ a.x < 0
              \/ a.y < 0
              \/ a.width = 0
              \/ a.height = 0
              \/ ~AtMost(Plus(Limbs(a.x), Limbs(a.width)), Limbs(mVirtualCreateInfo.width))
              \/ ~AtMost(Plus(Limbs(a.y), Limbs(a.height)), Limbs(mVirtualCreateInfo.height))
              \/ a = VirtualGetRenderArea) => UpdateRenderArea(a) = mRenderArea
====
